---- MODULE Spec2Model ----
(***************************************************************************)
(* Linguist-RS: the language registry (language.rs, data/languages.rs),    *)
(* the blob predicates (blob.rs), the eight detection strategies           *)
(* (strategy/*.rs, heuristics.rs, classifier.rs) and the detection         *)
(* pipeline (lib.rs).                                                      *)
(*                                                                         *)
(* A program string (a language name, an alias, a path, an extension) is a *)
(* sequence of one-character strings, so that to_lowercase, Path::extension*)
(* and the pattern tests are computed character by character.  An          *)
(* Option<T> is a sequence of length at most one: <<>> is None, <<x>> is   *)
(* Some(x).  A HashMap is a function on the set of its keys.               *)
(***************************************************************************)
EXTENDS Integers, Sequences, FiniteSets, TLC

VARIABLES
    catalogue,   \* the entries of data/languages.yml: a set of language records
    once,        \* language.rs INIT: "incomplete", "running" or "complete"
    registry,    \* the eight statics of language.rs, each an Option
    blob,        \* detect's argument blob (NoBlob before the call)
    allow_empty, \* detect's argument allow_empty
    pc,          \* where detect stands: "idle", "gate", "loop", "final", "done"
    next_strategy, \* index into STRATEGIES of the next loop iteration of detect
    candidates,  \* detect's local candidates
    verdict,     \* detect's return value, an Option<Language>
    trace,       \* history: one record per strategy.call detect has made
    first_run,   \* history: the outcome of the first process run on this blob
    processes,   \* history: how many processes have been started on this blob
    call,        \* the last direct call of a strategy or registry accessor
    threads,     \* the threads racing for the first access to the registry
    loads,       \* history: how many times load_language_data has run
    loading,     \* the tuple the closure of Language::init is assigning from
    dir,         \* the directory a DirectoryAnalyzer walks: its root and files
    walk,        \* process_directory: its position, the entries WalkDir has
                 \* yet to yield, and its file_map
    analyzer,    \* the DirectoryAnalyzer: its cache
    outcome,     \* what the last analyze() returned, an Option
    first_outcome, \* history: what the first analyze() returned
    git,         \* the git repository: the tree of each commit
    repository,  \* the Repository: commit_oid, max_tree_size,
                 \* old_commit_oid, old_stats, cache
    builds,      \* history: the calls of compute_stats and the trees walked
    answer,      \* what the last query on the Repository returned
    result_cache, \* ParallelClassifier: result_cache, by name and size
    token_cache, \* ParallelClassifier: token_cache, by content hash
    queue,       \* ThreadPoolManager: the work items in the work channel
    pool_cache,  \* ThreadPoolManager: cache, by blob name
    shutdown,    \* ThreadPoolManager: the shutdown flag
    workers,     \* the worker threads: where each stands in worker_loop
    submitters,  \* the threads that call detect_language_async
    receivers,   \* the messages in the channel of each submission
    closer       \* the thread that calls shutdown()

vars == <<catalogue, once, registry, blob, allow_empty, pc, next_strategy,
          candidates, verdict, trace, first_run, processes, call,
          threads, loads, loading, dir, walk, analyzer, outcome,
          first_outcome, git, repository, builds, answer,
          result_cache, token_cache, queue, pool_cache, shutdown, workers,
          submitters, receivers, closer>>

(***************************************************************************)
(* Options and maps                                                        *)
(***************************************************************************)
NoneV == <<>>

Some(x) == <<x>>

IsSome(o) == o # <<>>

Unwrap(o) == o[1]

EmptyMap == <<>>

\* HashMap::insert: a later insert under the same key replaces the earlier one.
Put(m, k, v) == [x \in (DOMAIN m) \cup {k} |-> IF x = k THEN v ELSE m[x]]

\* map.entry(k).or_insert_with(Vec::new).push(v)
PushEntry(m, k, v) == Put(m, k, IF k \in DOMAIN m THEN Append(m[k], v) ELSE <<v>>)

SeqToSet(s) == {s[i] : i \in 1..Len(s)}

\* Vec<usize>::sort
RECURSIVE SortInsert(_, _)
SortInsert(s, x) ==
    IF s = <<>> THEN <<x>>
    ELSE IF x < Head(s) THEN <<x>> \o s
    ELSE <<Head(s)>> \o SortInsert(Tail(s), x)

RECURSIVE SortIndices(_)
SortIndices(s) == IF s = <<>> THEN <<>> ELSE SortInsert(SortIndices(Tail(s)), Head(s))

\* All orders in which the elements of a finite set can be iterated.
RECURSIVE Orders(_)
Orders(S) ==
    IF S = {} THEN {<<>>}
    ELSE UNION {{<<x>> \o o : o \in Orders(S \ {x})} : x \in S}

(***************************************************************************)
(* Characters and strings                                                  *)
(***************************************************************************)
UpperLetters ==
    <<"A","B","C","D","E","F","G","H","I","J","K","L","M",
      "N","O","P","Q","R","S","T","U","V","W","X","Y","Z">>

LowerLetters ==
    <<"a","b","c","d","e","f","g","h","i","j","k","l","m",
      "n","o","p","q","r","s","t","u","v","w","x","y","z">>

Digits == {"0","1","2","3","4","5","6","7","8","9"}

LowerChar(c) ==
    IF \E i \in 1..26 : UpperLetters[i] = c
    THEN LowerLetters[CHOOSE i \in 1..26 : UpperLetters[i] = c]
    ELSE c

\* str::to_lowercase
ToLower(s) == [i \in 1..Len(s) |-> LowerChar(s[i])]

\* str::replace(" ", "-")
SpacesToDashes(s) == [i \in 1..Len(s) |-> IF s[i] = " " THEN "-" ELSE s[i]]

\* str::contains(',')
ContainsComma(s) == \E i \in 1..Len(s) : s[i] = ","

\* str::trim
RECURSIVE TrimStart(_)
TrimStart(s) == IF s # <<>> /\ Head(s) = " " THEN TrimStart(Tail(s)) ELSE s

RECURSIVE TrimEnd(_)
TrimEnd(s) ==
    IF s # <<>> /\ s[Len(s)] = " " THEN TrimEnd(SubSeq(s, 1, Len(s) - 1)) ELSE s

Trim(s) == TrimEnd(TrimStart(s))

\* name.split(',').next().unwrap().trim().to_lowercase()
FirstPart(s) ==
    LET p == CHOOSE i \in 1..Len(s) : s[i] = "," /\ \A j \in 1..(i - 1) : s[j] # ","
    IN  ToLower(Trim(SubSeq(s, 1, p - 1)))

\* str::ends_with
EndsWith(s, suffix) ==
    /\ Len(suffix) <= Len(s)
    /\ SubSeq(s, Len(s) - Len(suffix) + 1, Len(s)) = suffix

(***************************************************************************)
(* std::path::Path on "/"-separated paths that do not end in "/" or ".."   *)
(***************************************************************************)
\* Path::file_name: the last component
FileName(path) ==
    LET slashes == {i \in 1..Len(path) : path[i] = "/"}
        last == IF slashes = {} THEN 0
                ELSE CHOOSE i \in slashes : \A j \in slashes : j <= i
    IN  SubSeq(path, last + 1, Len(path))

\* The position of the dot that splits the file name into stem and
\* extension, 0 when there is none (no dot, or only a leading dot).
SplitDot(name) ==
    LET dots == {i \in 1..Len(name) : name[i] = "."}
        last == IF dots = {} THEN 0
                ELSE CHOOSE i \in dots : \A j \in dots : j <= i
    IN  IF last <= 1 THEN 0 ELSE last

\* Path::extension, an Option
PathExtension(path) ==
    LET name == FileName(path)
        d == SplitDot(name)
    IN  IF d = 0 THEN NoneV ELSE Some(SubSeq(name, d + 1, Len(name)))

\* Path::file_stem
FileStem(path) ==
    LET name == FileName(path)
        d == SplitDot(name)
    IN  IF d = 0 THEN name ELSE SubSeq(name, 1, d - 1)

(***************************************************************************)
(* The language catalogue and load_language_data (data/languages.rs)       *)
(***************************************************************************)
\* Language::default_alias
DefaultAlias(name) == SpacesToDashes(ToLower(name))

\* One pass of the loop over lang_map: the Language built for an entry;
\* a language without aliases gets its default alias.
MakeLanguage(entry) ==
    IF entry.aliases = <<>>
    THEN [entry EXCEPT !.aliases = <<DefaultAlias(entry.name)>>]
    ELSE entry

\* for key in keys { m.insert(key.to_lowercase(), index) }
RECURSIVE InsertLowered(_, _, _)
InsertLowered(m, keys, index) ==
    IF keys = <<>> THEN m
    ELSE InsertLowered(Put(m, ToLower(Head(keys)), index), Tail(keys), index)

\* for key in keys { m.entry(key).or_insert_with(Vec::new).push(index) }
RECURSIVE PushAll(_, _, _)
PushAll(m, keys, index) ==
    IF keys = <<>> THEN m
    ELSE PushAll(PushEntry(m, Head(keys), index), Tail(keys), index)

\* The indices after the first n languages of langs have been added;
\* index is the position languages.len() of the language in the Vec.
RECURSIVE BuildIndices(_, _)
BuildIndices(langs, n) ==
    IF n = 0
    THEN [name_index |-> EmptyMap, alias_index |-> EmptyMap,
          language_index |-> EmptyMap, language_id_index |-> EmptyMap,
          extension_index |-> EmptyMap, interpreter_index |-> EmptyMap,
          filename_index |-> EmptyMap]
    ELSE LET acc == BuildIndices(langs, n - 1)
             language == langs[n]
             index == n - 1
         IN  [name_index |->
                  Put(acc.name_index, ToLower(language.name), index),
              alias_index |->
                  InsertLowered(acc.alias_index, language.aliases, index),
              language_index |->
                  InsertLowered(Put(acc.language_index, ToLower(language.name), index),
                                language.aliases, index),
              language_id_index |->
                  Put(acc.language_id_index, language.language_id, index),
              extension_index |->
                  PushAll(acc.extension_index,
                          [i \in 1..Len(language.extensions) |->
                              ToLower(language.extensions[i])],
                          index),
              interpreter_index |->
                  PushAll(acc.interpreter_index, language.interpreters, index),
              filename_index |->
                  PushAll(acc.filename_index, language.filenames, index)]

\* "Sort indices for consistency": for indices in index.values_mut() { indices.sort() }
SortValues(m) == [k \in DOMAIN m |-> SortIndices(m[k])]

\* What load_language_data returns when lang_map (a HashMap) is iterated in
\* the order `order`.  Every index entry is kept resolved to the language
\* it points at, languages[index], which is what each accessor of
\* language.rs hands out; the positions themselves are not kept.
LoadLanguageData(order) ==
    LET langs == [i \in 1..Len(order) |-> MakeLanguage(order[i])]
        built == BuildIndices(langs, Len(langs))
        One(m) == [k \in DOMAIN m |-> langs[m[k] + 1]]
        Many(m) == [k \in DOMAIN m |-> [j \in 1..Len(m[k]) |-> langs[m[k][j] + 1]]]
    IN  [LANGUAGES |-> SeqToSet(langs),
         LANGUAGE_INDEX |-> One(built.language_index),
         NAME_INDEX |-> One(built.name_index),
         ALIAS_INDEX |-> One(built.alias_index),
         LANGUAGE_ID_INDEX |-> One(built.language_id_index),
         EXTENSION_INDEX |-> Many(SortValues(built.extension_index)),
         INTERPRETER_INDEX |-> Many(SortValues(built.interpreter_index)),
         FILENAME_INDEX |-> Many(SortValues(built.filename_index))]

\* The results load_language_data can have for a catalogue: one for each
\* iteration order of the HashMap lang_map.
LoadOutcomes(cat) == {LoadLanguageData(order) : order \in Orders(cat)}

StaticNames ==
    <<"LANGUAGES", "LANGUAGE_INDEX", "NAME_INDEX", "ALIAS_INDEX",
      "LANGUAGE_ID_INDEX", "EXTENSION_INDEX", "INTERPRETER_INDEX",
      "FILENAME_INDEX">>

\* static mut ... : Option<...> = None
Uninitialised == [s \in SeqToSet(StaticNames) |-> NoneV]

\* The statics after the closure of Language::init has run on `loaded`.
Initialised(loaded) == [s \in SeqToSet(StaticNames) |-> Some(loaded[s])]

(***************************************************************************)
(* The accessors of language.rs, on the statics `reg`                      *)
(***************************************************************************)
FindByName(reg, name) ==
    LET lowered == ToLower(name)
        index == Unwrap(reg.NAME_INDEX)
    IN  IF lowered \in DOMAIN index THEN Some(index[lowered])
        ELSE IF ContainsComma(lowered) /\ FirstPart(lowered) \in DOMAIN index
        THEN Some(index[FirstPart(lowered)])
        ELSE NoneV

\* A lookup by alias that does not lower the case of its argument.
FindByAliasCaseSensitive(reg, alias) ==
    LET index == Unwrap(reg.ALIAS_INDEX)
    IN  IF alias \in DOMAIN index THEN Some(index[alias])
        ELSE IF ContainsComma(alias) /\ FirstPart(alias) \in DOMAIN index
        THEN Some(index[FirstPart(alias)])
        ELSE NoneV

FindByAlias(reg, alias) ==
    LET lowered == ToLower(alias)
        index == Unwrap(reg.ALIAS_INDEX)
    IN  IF lowered \in DOMAIN index THEN Some(index[lowered])
        ELSE IF ContainsComma(lowered) /\ FirstPart(lowered) \in DOMAIN index
        THEN Some(index[FirstPart(lowered)])
        ELSE NoneV

FindByFilename(reg, filename) ==
    LET basename == FileName(filename)
        index == Unwrap(reg.FILENAME_INDEX)
    IN  IF basename \in DOMAIN index THEN index[basename] ELSE <<>>

\* The extensions find_by_extension collects in its while loop:
\* "." + extension of the path, then of its file stem, and so on.
RECURSIVE CollectExtensions(_)
CollectExtensions(path) ==
    LET ext == PathExtension(path)
    IN  IF ext = NoneV THEN <<>>
        ELSE <<(<<".">> \o Unwrap(ext))>> \o CollectExtensions(FileStem(path))

\* The languages of the first extension of exts that has any.
RECURSIVE FirstWithLanguages(_, _)
FirstWithLanguages(index, exts) ==
    IF exts = <<>> THEN <<>>
    ELSE IF Head(exts) \in DOMAIN index /\ index[Head(exts)] # <<>>
    THEN index[Head(exts)]
    ELSE FirstWithLanguages(index, Tail(exts))

FindByExtension(reg, filename) ==
    FirstWithLanguages(Unwrap(reg.EXTENSION_INDEX),
                       CollectExtensions(ToLower(filename)))

FindByInterpreter(reg, interpreter) ==
    LET index == Unwrap(reg.INTERPRETER_INDEX)
    IN  IF interpreter \in DOMAIN index THEN index[interpreter] ELSE <<>>

Lookup(reg, name) ==
    IF name = <<>> THEN NoneV
    ELSE IF IsSome(FindByName(reg, name)) THEN FindByName(reg, name)
    ELSE FindByAlias(reg, name)

(***************************************************************************)
(* A sample of data/languages.yml.  An entry carries the attributes that   *)
(* load_language_data indexes.                                             *)
(***************************************************************************)
LangC ==
    [name |-> <<"C">>,
     aliases |-> <<>>,
     extensions |-> <<<<".","c">>, <<".","h">>>>,
     filenames |-> <<>>,
     interpreters |-> <<<<"t","c","c">>>>,
     language_id |-> 41,
     language_type |-> "programming",
     group_name |-> NoneV]

LangCpp ==
    [name |-> <<"C","+","+">>,
     aliases |-> <<<<"c","p","p">>>>,
     extensions |-> <<<<".","c","p","p">>, <<".","h">>>>,
     filenames |-> <<>>,
     interpreters |-> <<>>,
     language_id |-> 43,
     language_type |-> "programming",
     group_name |-> NoneV]

LangJavaScript ==
    [name |-> <<"J","a","v","a","S","c","r","i","p","t">>,
     aliases |-> <<<<"j","s">>, <<"n","o","d","e">>>>,
     extensions |-> <<<<".","j","s">>>>,
     filenames |-> <<<<"J","a","k","e","f","i","l","e">>>>,
     interpreters |-> <<<<"n","o","d","e">>>>,
     language_id |-> 183,
     language_type |-> "programming",
     group_name |-> NoneV]

LangRoff ==
    [name |-> <<"R","o","f","f">>,
     aliases |-> <<<<"m","a","n">>>>,
     extensions |-> <<<<".","r","o","f","f">>, <<".","m","a","n">>>>,
     filenames |-> <<>>,
     interpreters |-> <<>>,
     language_id |-> 141,
     language_type |-> "markup",
     group_name |-> NoneV]

LangRoffManpage ==
    [name |-> <<"R","o","f","f"," ","M","a","n","p","a","g","e">>,
     aliases |-> <<>>,
     extensions |-> <<<<".","1">>, <<".","m","a","n">>>>,
     filenames |-> <<>>,
     interpreters |-> <<>>,
     language_id |-> 612669833,
     language_type |-> "markup",
     group_name |-> Some(<<"R","o","f","f">>)]

LangXML ==
    [name |-> <<"X","M","L">>,
     aliases |-> <<<<"r","s","s">>>>,
     extensions |-> <<<<".","x","m","l">>, <<".","x","m","l",".","d","i","s","t">>>>,
     filenames |-> <<<<".","c","l","a","s","s","p","a","t","h">>>>,
     interpreters |-> <<>>,
     language_id |-> 399,
     language_type |-> "data",
     group_name |-> NoneV]

SampleCatalogue ==
    {LangC, LangCpp, LangJavaScript, LangRoff, LangRoffManpage, LangXML}

(***************************************************************************)
(* Blobs (blob.rs).  A blob has a name, its data and the symlink flag.  The *)
(* data is the sequence of its lines; a line is named by its text.          *)
(***************************************************************************)
NoBlob == [name |-> <<>>, data |-> <<>>, symlink |-> FALSE]

BlobNames ==
    {<<"v","e","c","t","o","r",".","h">>,
     <<"a","p","p",".","j","s">>,
     <<"t","o","o","l",".","1">>,
     <<"t","o","o","l",".","m","a","n">>,
     <<"d","a","t","a",".","x","m","l">>,
     <<"l","o","g","o",".","p","n","g">>,
     <<"s","c","r","i","p","t">>,
     <<"s","r","c","/","J","a","k","e","f","i","l","e">>,
     <<"n","o","t","e","s",".","h",".","b","a","k">>,
     <<"p","h","p","u","n","i","t",".","x","m","l",".","d","i","s","t">>}

\* the "common binary extensions" of FileBlob::likely_binary
BinaryExtensions ==
    {<<".","p","n","g">>,
     <<".","j","p","g">>,
     <<".","j","p","e","g">>,
     <<".","g","i","f">>,
     <<".","p","d","f">>,
     <<".","z","i","p">>,
     <<".","g","z">>,
     <<".","t","a","r">>,
     <<".","t","g","z">>,
     <<".","e","x","e">>,
     <<".","d","l","l">>,
     <<".","s","o">>,
     <<".","o">>}

GENERIC_EXTENSIONS ==
    {<<".","1">>,
     <<".","2">>,
     <<".","3">>,
     <<".","4">>,
     <<".","5">>,
     <<".","6">>,
     <<".","7">>,
     <<".","8">>,
     <<".","9">>,
     <<".","a","p","p">>,
     <<".","c","m","p">>,
     <<".","m","s","g">>,
     <<".","r","e","s","o","u","r","c","e">>,
     <<".","s","o","l">>,
     <<".","s","t","l">>,
     <<".","t","a","g">>,
     <<".","u","r","l">>}

\* The lines blobs are made of.
ShebangLine == "#!/usr/bin/env node"
VimLine == "// vim: ft=cpp"
EmacsLine == "-*- mode: c -*-"
VimballLine == "UseVimball"
IncludeLine == "#include <vector>"
XmlLine == "<?xml version=\"1.0\"?>"
ProjectLine == "<project/>"
ThLine == ".TH TOOL 1"
ShLine == ".SH NAME"
ProseLine == "alpha beta gamma delta epsilon zeta"
ReactLine == "import React from 'react';"
NulLine == "<NUL><NUL>"
BadUtf8Line == "<0xFF>"
TargetLine == "../include/vector.h"

BlobContents ==
    {<<>>,
     <<NulLine>>,
     <<BadUtf8Line>>,
     <<ShebangLine, ProseLine>>,
     <<VimLine, IncludeLine>>,
     <<VimballLine, VimLine>>,
     <<XmlLine, ProjectLine>>,
     <<IncludeLine, ProseLine, ProseLine>>,
     <<ReactLine, ProseLine, ProseLine>>,
     <<ThLine, ShLine>>,
     <<ThLine, ShLine, ProseLine>>,
     <<ProseLine>>}

\* FileBlob::new, FileBlob::from_data and LazyBlob: a FileBlob read from a
\* symlink has no data, a LazyBlob that is a symlink has the link's target
\* as its data.
Blobs ==
    [name : BlobNames, data : BlobContents, symlink : {FALSE}]
        \cup [name : BlobNames, data : {<<>>, <<TargetLine>>}, symlink : {TRUE}]

\* the number of bytes of a line, its line terminator excluded
LineBytes(line) ==
    CASE line = ShebangLine -> 19
      [] line = VimLine -> 14
      [] line = EmacsLine -> 15
      [] line = VimballLine -> 10
      [] line = IncludeLine -> 17
      [] line = XmlLine -> 21
      [] line = ProjectLine -> 10
      [] line = ThLine -> 10
      [] line = ShLine -> 8
      [] line = ProseLine -> 35
      [] line = ReactLine -> 26
      [] line = NulLine -> 2
      [] line = BadUtf8Line -> 1
      [] line = TargetLine -> 19
      [] line = "// vim: set syntax=javascript:" -> 30

\* self.data.len(): every line is ended by a line feed
RECURSIVE DataLen(_)
DataLen(data) ==
    IF data = <<>> THEN 0 ELSE LineBytes(Head(data)) + 1 + DataLen(Tail(data))

Size(b) == DataLen(b.data)

IsEmpty(b) == Size(b) = 0 \/ b.data = <<>>

\* self.data.contains(&0)
ContainsNul(data) == \E i \in 1..Len(data) : data[i] = NulLine

\* std::str::from_utf8(data) is Ok
ValidUtf8(data) == \A i \in 1..Len(data) : data[i] # BadUtf8Line

IsBinary(b) ==
    IF b.data = <<>> THEN FALSE
    ELSE IF ContainsNul(b.data) THEN TRUE
    ELSE ~ValidUtf8(b.data)

\* BlobHelper::extension of a FileBlob: "." and the extension of the path
BlobExtension(b) ==
    IF PathExtension(b.name) = NoneV THEN NoneV
    ELSE Some(<<".">> \o Unwrap(PathExtension(b.name)))

LikelyBinary(b) ==
    /\ IsSome(BlobExtension(b))
    /\ ToLower(Unwrap(BlobExtension(b))) \in BinaryExtensions

\* BlobHelper::lines; a text blob is valid UTF-8, so the decoding branch
\* is never taken
Lines(b) == IF IsBinary(b) \/ IsEmpty(b) THEN <<>> ELSE b.data

FirstLines(b, n) ==
    SubSeq(Lines(b), 1, IF n < Len(Lines(b)) THEN n ELSE Len(Lines(b)))

LastLines(b, n) ==
    IF n >= Len(Lines(b)) THEN Lines(b)
    ELSE SubSeq(Lines(b), Len(Lines(b)) - n + 1, Len(Lines(b)))

\* FileBlob::extensions: the trailing extensions of the lowercased
\* basename, the longest first (".html.erb", then ".erb")
BlobExtensions(name) ==
    LET base == ToLower(FileName(name))
        dots == {i \in 1..Len(base) : base[i] = "."}
        Nth(k) == CHOOSE i \in dots : Cardinality({j \in dots : j < i}) = k - 1
    IN  [k \in 1..Cardinality(dots) |-> SubSeq(base, Nth(k), Len(base))]

(***************************************************************************)
(* The strategies (strategy/*.rs, heuristics.rs, classifier.rs).  Each is  *)
(* call(blob, candidates) on the statics `reg`.                            *)
(***************************************************************************)
STRATEGIES ==
    <<"Modeline", "Filename", "Shebang", "Extension", "Xml", "Manpage",
      "Heuristics", "Classifier">>

\* PartialEq for Language: two languages are equal when their names are
LanguageEq(a, b) == a.name = b.name

\* candidates.contains(language), candidate_set.contains(lang)
Contains(cands, language) ==
    \E i \in 1..Len(cands) : LanguageEq(cands[i], language)

\* languages.into_iter().filter(|lang| candidate_set.contains(lang))
RECURSIVE FilterByCandidates(_, _)
FilterByCandidates(languages, cands) ==
    IF languages = <<>> THEN <<>>
    ELSE IF Contains(cands, Head(languages))
    THEN <<Head(languages)>> \o FilterByCandidates(Tail(languages), cands)
    ELSE FilterByCandidates(Tail(languages), cands)

\* No filter by candidates.
NoNarrowing(languages, cands) == languages

\* "Filter by candidates if provided"
Narrow(languages, cands) ==
    IF cands # <<>> THEN FilterByCandidates(languages, cands) ELSE languages

\* modeline.rs SEARCH_SCOPE and xml.rs SEARCH_SCOPE
MODELINE_SEARCH_SCOPE == 5
XML_SEARCH_SCOPE == 2

\* The mode EMACS_MODELINE captures in a line, the pattern read in the
\* extended form its comments and test_emacs_modeline give it.
EmacsMode(line) ==
    IF line = EmacsLine THEN Some(<<"c">>) ELSE NoneV

\* The mode VIM_MODELINE captures in a line, read likewise.
VimMode(line) ==
    IF line = VimLine THEN Some(<<"c","p","p">>)
    ELSE IF line = "// vim: set syntax=javascript:"
    THEN Some(<<"j","a","v","a","s","c","r","i","p","t">>)
    ELSE NoneV

\* EMACS_MODELINE.captures(content): the capture of the first line that
\* has one
FirstEmacsMode(content) ==
    LET hits == {i \in 1..Len(content) : IsSome(EmacsMode(content[i]))}
    IN  IF hits = {} THEN NoneV
        ELSE EmacsMode(content[CHOOSE i \in hits : \A j \in hits : i <= j])

\* VIM_MODELINE.captures(content)
FirstVimMode(content) ==
    LET hits == {i \in 1..Len(content) : IsSome(VimMode(content[i]))}
    IN  IF hits = {} THEN NoneV
        ELSE VimMode(content[CHOOSE i \in hits : \A j \in hits : i <= j])

\* Modeline::modeline: the Emacs modeline is tried first, then the Vim one
ModelineMode(content) ==
    IF IsSome(FirstEmacsMode(content))
    THEN FirstEmacsMode(content)
    ELSE FirstVimMode(content)

ModelineCall(reg, b, cands) ==
    IF b.symlink THEN <<>>
    ELSE LET header == FirstLines(b, MODELINE_SEARCH_SCOPE)
             footer == LastLines(b, MODELINE_SEARCH_SCOPE)
             mode == ModelineMode(header \o footer)
         IN  IF \E i \in 1..Len(header) : header[i] = VimballLine THEN <<>>
             ELSE IF mode = NoneV THEN <<>>
             ELSE IF FindByAlias(reg, Unwrap(mode)) = NoneV THEN <<>>
             ELSE LET language == Unwrap(FindByAlias(reg, Unwrap(mode)))
                  IN  IF cands # <<>>
                      THEN IF Contains(cands, language) THEN <<language>> ELSE <<>>
                      ELSE <<language>>

FilenameCall(reg, b, cands) ==
    Narrow(FindByFilename(reg, FileName(b.name)), cands)

\* What SHEBANG_REGEX captures in a first line that starts with "#!".
ShebangCapture(line) ==
    IF line = ShebangLine THEN Some(<<"n","o","d","e">>) ELSE NoneV

\* data[0] == b'#' and data[1] == b'!'
StartsWithHashBang(data) == data # <<>> /\ Head(data) = ShebangLine

\* Shebang::interpreter
Interpreter(data) ==
    IF ~StartsWithHashBang(data) THEN NoneV
    ELSE IF ~ValidUtf8(data) THEN NoneV
    ELSE ShebangCapture(Head(data))

ShebangCall(reg, b, cands) ==
    IF b.symlink THEN <<>>
    ELSE IF Interpreter(b.data) = NoneV THEN <<>>
    ELSE Narrow(FindByInterpreter(reg, Unwrap(Interpreter(b.data))), cands)

\* Extension::is_generic
IsGeneric(filename) ==
    /\ IsSome(PathExtension(filename))
    /\ (<<".">> \o ToLower(Unwrap(PathExtension(filename)))) \in GENERIC_EXTENSIONS

ExtensionCall(reg, b, cands) ==
    IF IsGeneric(b.name) THEN cands
    ELSE Narrow(FindByExtension(reg, b.name), cands)

XmlCall(reg, b, cands) ==
    IF cands # <<>> THEN cands
    ELSE LET header == FirstLines(b, XML_SEARCH_SCOPE)
         IN  IF /\ \E i \in 1..Len(header) : header[i] = XmlLine
                /\ IsSome(FindByName(reg, <<"X","M","L">>))
             THEN <<Unwrap(FindByName(reg, <<"X","M","L">>))>>
             ELSE <<>>

\* The alternatives of MANPAGE_EXTS between the dot and the optional ".in":
\* [1-9](?![0-9])[a-z_0-9]* | 0p | n | man | mdoc
IsManSection(s) ==
    \/ /\ s # <<>>
       /\ s[1] \in (Digits \ {"0"})
       /\ Len(s) >= 2 => s[2] \notin Digits
       /\ \A i \in 2..Len(s) :
              s[i] \in SeqToSet(LowerLetters) \cup Digits \cup {"_"}
    \/ s \in {<<"0","p">>, <<"n">>, <<"m","a","n">>, <<"m","d","o","c">>}

\* MANPAGE_EXTS.is_match(name)
MatchesManpageExts(name) ==
    \E i \in 1..Len(name) :
        /\ name[i] = "."
        /\ LET rest == SubSeq(name, i + 1, Len(name))
           IN  \/ IsManSection(rest)
               \/ /\ EndsWith(rest, <<".","i","n">>)
                  /\ IsManSection(SubSeq(rest, 1, Len(rest) - 3))

ManpageCall(reg, b, cands) ==
    IF cands # <<>> THEN cands
    ELSE IF MatchesManpageExts(b.name)
    THEN FindByName(reg, <<"R","o","f","f"," ","M","a","n","p","a","g","e">>)
         \o FindByName(reg, <<"R","o","f","f">>)
    ELSE <<>>

\* Rule::matches on the content: cpp_rule and objective_c_rule are anchored
\* at the start of the text, jsx_rule matches anywhere.
RuleMatches(rule, data) ==
    CASE rule = "objective_c_rule" -> FALSE
      [] rule = "cpp_rule" -> data # <<>> /\ Head(data) = IncludeLine
      [] rule = "jsx_rule" -> \E i \in 1..Len(data) : data[i] = ReactLine
      [] rule = "AlwaysMatch" -> TRUE

\* lazy_static DISAMBIGUATIONS
DISAMBIGUATIONS(reg) ==
    LET cpp_langs == FindByName(reg, <<"C","+","+">>)
        objc_langs ==
            FindByName(reg, <<"O","b","j","e","c","t","i","v","e","-","C">>)
        c_langs == FindByName(reg, <<"C">>)
        js_langs ==
            <<Unwrap(FindByName(reg, <<"J","a","v","a","S","c","r","i","p","t">>))>>
        jsx_langs ==
            IF IsSome(FindByName(reg, <<"J","S","X">>))
            THEN FindByName(reg, <<"J","S","X">>)
            ELSE js_langs
    IN  <<[extensions |-> <<(<<".","h">>)>>,
           rules |-> <<[rule |-> "objective_c_rule", languages |-> objc_langs],
                       [rule |-> "cpp_rule", languages |-> cpp_langs],
                       [rule |-> "AlwaysMatch", languages |-> c_langs]>>],
          [extensions |-> <<(<<".","j","s">>)>>,
           rules |-> <<[rule |-> "jsx_rule", languages |-> jsx_langs],
                       [rule |-> "AlwaysMatch", languages |-> js_langs]>>]>>

\* Disambiguation::matches_extension
MatchesExtension(d, filename) ==
    \E i \in 1..Len(d.extensions) : EndsWith(ToLower(filename), d.extensions[i])

\* A disambiguation that goes on to the next rule when none of the
\* languages of a matching rule is a candidate.
RECURSIVE DisambiguateSkippingEmpty(_, _, _, _)
DisambiguateSkippingEmpty(rules, k, data, cands) ==
    IF k > Len(rules) THEN <<>>
    ELSE IF RuleMatches(rules[k].rule, data)
            /\ Narrow(rules[k].languages, cands) # <<>>
    THEN Narrow(rules[k].languages, cands)
    ELSE DisambiguateSkippingEmpty(rules, k + 1, data, cands)

\* Disambiguation::disambiguate, from the rule at position k on
RECURSIVE DisambiguateFrom(_, _, _, _)
DisambiguateFrom(rules, k, data, cands) ==
    IF k > Len(rules) THEN <<>>
    ELSE IF RuleMatches(rules[k].rule, data)
    THEN Narrow(rules[k].languages, cands)
    ELSE DisambiguateFrom(rules, k + 1, data, cands)

Disambiguate(d, data, cands) == DisambiguateFrom(d.rules, 1, data, cands)

\* the loop of Heuristics::call over DISAMBIGUATIONS, from position k on
RECURSIVE HeuristicsFrom(_, _, _, _)
HeuristicsFrom(ds, k, b, cands) ==
    IF k > Len(ds) THEN <<>>
    ELSE IF /\ MatchesExtension(ds[k], b.name)
            /\ Disambiguate(ds[k], b.data, cands) # <<>>
    THEN Disambiguate(ds[k], b.data, cands)
    ELSE HeuristicsFrom(ds, k + 1, b, cands)

\* The blobs are shorter than HEURISTICS_CONSIDER_BYTES, so the slice
\* considered is the whole data.
HeuristicsCall(reg, b, cands) ==
    IF IsBinary(b) \/ b.symlink THEN <<>>
    ELSE IF ~ValidUtf8(b.data) THEN <<>>
    ELSE HeuristicsFrom(DISAMBIGUATIONS(reg), 1, b, cands)

\* The number of tokens Classifier::tokenize takes from a line: the words
\* split at whitespace, trimmed of non-alphanumerics and lowercased, less
\* the empty ones, the stop words and those of one character.
TokensOfLine(line) ==
    CASE line = ShebangLine -> 2
      [] line = VimLine -> 2
      [] line = EmacsLine -> 1
      [] line = VimballLine -> 1
      [] line = IncludeLine -> 2
      [] line = XmlLine -> 2
      [] line = ProjectLine -> 1
      [] line = ThLine -> 2
      [] line = ShLine -> 2
      [] line = ProseLine -> 6
      [] line = ReactLine -> 3
      [] line = NulLine -> 0
      [] line = BadUtf8Line -> 0
      [] line = TargetLine -> 1

\* tokens.len()
RECURSIVE Tokenize(_)
Tokenize(data) ==
    IF data = <<>> THEN 0 ELSE TokensOfLine(Head(data)) + Tokenize(Tail(data))

\* The blobs are shorter than CLASSIFIER_CONSIDER_BYTES.
ClassifierCall(reg, b, cands) ==
    IF IsBinary(b) \/ b.symlink THEN <<>>
    ELSE IF ~ValidUtf8(b.data) THEN <<>>
    ELSE IF Tokenize(b.data) < 10 THEN <<>>
    ELSE IF cands # <<>> THEN <<cands[1]>>
    ELSE <<>>

\* impl Strategy for StrategyType
StrategyCall(strategy, reg, b, cands) ==
    CASE strategy = "Modeline" -> ModelineCall(reg, b, cands)
      [] strategy = "Filename" -> FilenameCall(reg, b, cands)
      [] strategy = "Shebang" -> ShebangCall(reg, b, cands)
      [] strategy = "Extension" -> ExtensionCall(reg, b, cands)
      [] strategy = "Xml" -> XmlCall(reg, b, cands)
      [] strategy = "Manpage" -> ManpageCall(reg, b, cands)
      [] strategy = "Heuristics" -> HeuristicsCall(reg, b, cands)
      [] strategy = "Classifier" -> ClassifierCall(reg, b, cands)

(***************************************************************************)
(* Bounds                                                                  *)
(***************************************************************************)
\* how many processes are started on the same blob
MaxProcesses == 2
\* the longest candidates list handed to a strategy called directly
MaxCands == 2
\* the number of languages of a small catalogue
MaxLangs == 2
\* the number of threads that race for the first access
NThreads == 3

(***************************************************************************)
(* Registry initialisation as a caller of an accessor sees it              *)
(***************************************************************************)
\* the outcomes of load_language_data on the sample, evaluated once
SampleOutcomes == LoadOutcomes(SampleCatalogue)

Outcomes(cat) ==
    IF cat = SampleCatalogue THEN SampleOutcomes ELSE LoadOutcomes(cat)

\* Language::init() seen from one thread: the statics after INIT.call_once
\* has returned; the closure runs when INIT is not yet complete.
AfterInit(o, reg, cat) ==
    IF o = "complete" THEN {reg}
    ELSE {Initialised(loaded) : loaded \in Outcomes(cat)}

(***************************************************************************)
(* detect (lib.rs)                                                         *)
(***************************************************************************)
\* A gate that does not look at the content.
BailOnNameOnly(b, ae) == LikelyBinary(b) \/ (~ae /\ IsEmpty(b))

\* "Bail early if the blob is binary or empty"
Bail(b, ae) == LikelyBinary(b) \/ IsBinary(b) \/ (~ae /\ IsEmpty(b))

\* A loop body that clears the candidates on an empty result.
LoopBodyClearing(cands, result) ==
    IF Len(result) = 1
    THEN [returns |-> Some(result[1]), candidates |-> cands]
    ELSE [returns |-> NoneV, candidates |-> result]

\* A loop body that never returns from inside the loop.
LoopBodyNoReturn(cands, result) ==
    IF result # <<>>
    THEN [returns |-> NoneV, candidates |-> result]
    ELSE [returns |-> NoneV, candidates |-> cands]

\* A loop body that returns a single language only once candidates exist.
LoopBodyReturnOnCandidates(cands, result) ==
    IF Len(result) = 1 /\ cands # <<>>
    THEN [returns |-> Some(result[1]), candidates |-> cands]
    ELSE IF result # <<>>
    THEN [returns |-> NoneV, candidates |-> result]
    ELSE [returns |-> NoneV, candidates |-> cands]

\* A loop body that returns the first language of any non-empty result.
LoopBodyReturningFirst(cands, result) ==
    IF result # <<>>
    THEN [returns |-> Some(result[1]), candidates |-> cands]
    ELSE [returns |-> NoneV, candidates |-> cands]

\* The body of the loop over STRATEGIES once strategy.call has returned
\* result: what detect returns, if it returns, and the candidates it keeps.
LoopBody(cands, result) ==
    IF Len(result) = 1
    THEN [returns |-> Some(result[1]), candidates |-> cands]
    ELSE IF result # <<>>
    THEN [returns |-> NoneV, candidates |-> result]
    ELSE [returns |-> NoneV, candidates |-> cands]

\* "If we have exactly one candidate at the end, return it"
AfterLoop(cands) == IF Len(cands) = 1 THEN Some(cands[1]) ELSE NoneV

NoCall == [op |-> "none"]

registryVars == <<catalogue, once, registry>>
detectVars ==
    <<blob, allow_empty, pc, next_strategy, candidates, verdict, trace,
      first_run, processes>>
threadVars == <<threads, loads, loading>>
directoryVars == <<dir, walk, analyzer, outcome, first_outcome>>
repositoryVars == <<git, repository, builds, answer>>
classifierVars == <<result_cache, token_cache>>
poolVars ==
    <<queue, pool_cache, shutdown, workers, submitters, receivers, closer>>
concurrentVars == <<classifierVars, poolVars>>

\* no DirectoryAnalyzer and no Repository has been constructed
InitAggregator ==
    /\ dir = NoneV
    /\ walk = NoneV
    /\ analyzer = NoneV
    /\ outcome = NoneV
    /\ first_outcome = NoneV
    /\ git = NoneV
    /\ repository = NoneV
    /\ builds = NoneV
    /\ answer = NoneV

\* no ParallelClassifier has been constructed
NoClassifier ==
    /\ result_cache = NoneV
    /\ token_cache = NoneV

\* no ThreadPoolManager has been constructed
NoPool ==
    /\ queue = NoneV
    /\ pool_cache = NoneV
    /\ shutdown = NoneV
    /\ workers = NoneV
    /\ submitters = NoneV
    /\ receivers = NoneV
    /\ closer = NoneV

InitConcurrent == NoClassifier /\ NoPool

\* detect(b, ae) is called and passes or fails its gate.  A later process
\* is given the blob of the first.
DetectEnter(b, ae) ==
    /\ pc = "idle"
    /\ processes = 1 \/ (b = blob /\ ae = allow_empty)
    /\ blob' = b
    /\ allow_empty' = ae
    /\ trace' = <<>>
    /\ candidates' = <<>>
    /\ next_strategy' = 1
    /\ verdict' = NoneV
    /\ pc' = IF Bail(b, ae) THEN "done" ELSE "loop"
    /\ UNCHANGED <<first_run, processes, call>>
    /\ UNCHANGED registryVars
    /\ UNCHANGED threadVars
    /\ UNCHANGED directoryVars
    /\ UNCHANGED repositoryVars
    /\ UNCHANGED concurrentVars

\* One iteration of the loop over STRATEGIES.
DetectStrategy ==
    /\ pc = "loop"
    /\ \E reg \in AfterInit(once, registry, catalogue) :
           LET strategy == STRATEGIES[next_strategy]
               result == StrategyCall(strategy, reg, blob, candidates)
               body == LoopBody(candidates, result)
           IN  /\ registry' = reg
               /\ once' = "complete"
               /\ trace' = Append(trace, [strategy |-> strategy,
                                          given |-> candidates,
                                          result |-> result])
               /\ IF IsSome(body.returns)
                  THEN /\ verdict' = body.returns
                       /\ pc' = "done"
                       /\ UNCHANGED <<candidates, next_strategy>>
                  ELSE /\ candidates' = body.candidates
                       /\ next_strategy' = next_strategy + 1
                       /\ pc' = IF next_strategy = Len(STRATEGIES)
                                THEN "final" ELSE "loop"
                       /\ UNCHANGED verdict
    /\ UNCHANGED <<catalogue, blob, allow_empty, first_run, processes, call>>
    /\ UNCHANGED threadVars
    /\ UNCHANGED directoryVars
    /\ UNCHANGED repositoryVars
    /\ UNCHANGED concurrentVars

\* The loop is over: detect returns.
DetectReturn ==
    /\ pc = "final"
    /\ verdict' = AfterLoop(candidates)
    /\ pc' = "done"
    /\ UNCHANGED <<blob, allow_empty, next_strategy, candidates, trace,
                   first_run, processes, call>>
    /\ UNCHANGED registryVars
    /\ UNCHANGED threadVars
    /\ UNCHANGED directoryVars
    /\ UNCHANGED repositoryVars
    /\ UNCHANGED concurrentVars

\* The process ends and another one is started on the same catalogue: its
\* statics are uninitialised again.  The outcome of the first is kept.
Restart ==
    /\ pc = "done"
    /\ processes < MaxProcesses
    /\ processes' = processes + 1
    /\ first_run' =
           IF first_run = NoneV
           THEN Some([verdict |-> verdict, registry |-> registry])
           ELSE first_run
    /\ once' = "incomplete"
    /\ registry' = Uninitialised
    /\ pc' = "idle"
    /\ trace' = <<>>
    /\ candidates' = <<>>
    /\ next_strategy' = 1
    /\ verdict' = NoneV
    /\ UNCHANGED <<catalogue, blob, allow_empty, call>>
    /\ UNCHANGED threadVars
    /\ UNCHANGED directoryVars
    /\ UNCHANGED repositoryVars
    /\ UNCHANGED concurrentVars

InitDetect ==
    /\ blob = NoBlob
    /\ allow_empty = FALSE
    /\ pc = "idle"
    /\ next_strategy = 1
    /\ candidates = <<>>
    /\ verdict = NoneV
    /\ trace = <<>>
    /\ first_run = NoneV
    /\ processes = 1

InitThreads ==
    /\ threads = <<>>
    /\ loads = 0
    /\ loading = NoneV

Init ==
    /\ catalogue = SampleCatalogue
    /\ once = "incomplete"
    /\ registry = Uninitialised
    /\ call = NoCall
    /\ InitDetect
    /\ InitThreads
    /\ InitAggregator
    /\ InitConcurrent

Next ==
    \/ \E b \in Blobs, ae \in BOOLEAN : DetectEnter(b, ae)
    \/ DetectStrategy
    \/ DetectReturn
    \/ Restart

Spec == Init /\ [][Next]_vars

(***************************************************************************)
(* Properties of detect, checked under Spec                                *)
(***************************************************************************)
\* C1: for every strategy step of detect on the current candidates: a
\* result of exactly one language is returned as the verdict; any other
\* non-empty result is the candidate list handed to the next strategy; an
\* empty result leaves the candidate list handed on unchanged.
C1_IterationRule ==
    \A i \in 1..Len(trace) :
        LET result == trace[i].result
            handed == IF i < Len(trace) THEN trace[i + 1].given ELSE candidates
        IN  IF Len(result) = 1
            THEN i = Len(trace) /\ pc = "done" /\ verdict = Some(result[1])
            ELSE IF result # <<>>
            THEN handed = result
            ELSE handed = trace[i].given

\* A run in which a strategy gave several languages, a later one gave none
\* although it was handed candidates, and a last one gave the verdict.
C1_Witness ==
    /\ pc = "done"
    /\ IsSome(verdict)
    /\ \E i, j \in 1..Len(trace) :
           /\ i < j
           /\ Len(trace[i].result) > 1
           /\ trace[j].result = <<>>
           /\ trace[j].given = trace[i].result
    /\ Len(trace[Len(trace)].result) = 1

\* C2: in a run of detect that passes the gate the strategies are invoked
\* in the order Modeline, Filename, Shebang, Extension, Xml, Manpage,
\* Heuristics, Classifier, each at most once and none skipped before a
\* verdict; after a strategy has returned exactly one language no later
\* strategy is invoked.
C2_StrategyOrder ==
    LET order == <<"Modeline", "Filename", "Shebang", "Extension", "Xml",
                   "Manpage", "Heuristics", "Classifier">>
    IN  /\ Len(trace) <= Len(order)
        /\ \A i \in 1..Len(trace) : trace[i].strategy = order[i]
        /\ \A i \in 1..Len(trace) :
               Len(trace[i].result) = 1 => (i = Len(trace) /\ pc = "done")
        /\ (pc = "done" /\ trace # <<>>) =>
               \/ Len(trace) = Len(order)
               \/ Len(trace[Len(trace)].result) = 1
        /\ (pc = "done" /\ ~Bail(blob, allow_empty)) => trace # <<>>

\* A run that stopped at Shebang, the third strategy.
C2_Witness ==
    /\ pc = "done"
    /\ Len(trace) = 3
    /\ IsSome(verdict)

\* C3: detect(blob, allow_empty) returns None without invoking a strategy
\* whenever the blob is likely binary, or binary, or empty while allow_empty
\* is false.
C3_Gate ==
    (/\ pc # "idle"
     /\ \/ LikelyBinary(blob)
        \/ IsBinary(blob)
        \/ (IsEmpty(blob) /\ ~allow_empty))
    => (pc = "done" /\ verdict = NoneV /\ trace = <<>>)

\* detect has returned on a blob that is binary by its content only.
C3_Witness ==
    /\ pc = "done"
    /\ IsBinary(blob)
    /\ ~LikelyBinary(blob)
    /\ ~IsEmpty(blob)
    /\ verdict = NoneV

\* C5: a strategy result ends the pipeline exactly when it has one language
\* and is a narrowing; detect never returns a single language that Xml or
\* Manpage (handed candidates) or Extension (on a generic extension) merely
\* passed through, and the candidates left after the loop are never a
\* single language.
C5_NoPassthroughVerdict ==
    /\ \A i \in 1..Len(trace) :
           LET passthrough ==
                   \/ trace[i].strategy \in {"Xml", "Manpage"}
                      /\ trace[i].given # <<>>
                   \/ trace[i].strategy = "Extension" /\ IsGeneric(blob.name)
               returned ==
                   pc = "done" /\ i = Len(trace) /\ next_strategy = i
           IN  returned <=> (Len(trace[i].result) = 1 /\ ~passthrough)
    /\ (pc = "done" /\ next_strategy > Len(STRATEGIES)) => verdict = NoneV

\* A verdict returned after Xml and Manpage passed the candidates through.
C5_Witness ==
    /\ pc = "done"
    /\ IsSome(verdict)
    /\ \E i \in 1..Len(trace) :
           /\ trace[i].strategy = "Manpage"
           /\ trace[i].given # <<>>
           /\ trace[i].result = trace[i].given
           /\ i < Len(trace)

\* C6: for a non-empty text blob whose name matches the manpage pattern
\* and for which Modeline, Filename, Shebang, Extension and Xml give no
\* language, Manpage gives [Roff Manpage, Roff] in that order and
\* detect(blob, false) returns Roff Manpage, short content included.
C6_ManpageFallback ==
    (/\ pc = "done"
     /\ ~allow_empty
     /\ ~blob.symlink
     /\ MatchesManpageExts(blob.name)
     /\ Len(trace) >= 6
     /\ \A i \in 1..5 : trace[i].result = <<>>)
    => /\ Len(trace[6].result) = 2
       /\ trace[6].result[1].name = <<"R","o","f","f"," ","M","a","n","p","a","g","e">>
       /\ trace[6].result[2].name = <<"R","o","f","f">>
       /\ IsSome(verdict)
       /\ Unwrap(verdict).name = <<"R","o","f","f"," ","M","a","n","p","a","g","e">>

\* C9: two runs of detect on the same catalogue and the same blob, in two
\* processes that each initialised the registry, return the same verdict,
\* and the lookup by extension gives its languages in the same order.
C9_Deterministic ==
    (pc = "done" /\ IsSome(first_run)) =>
        /\ verdict = Unwrap(first_run).verdict
        /\ (once = "complete" /\ Unwrap(first_run).registry # Uninitialised) =>
               FindByExtension(registry, blob.name)
                   = FindByExtension(Unwrap(first_run).registry, blob.name)

(***************************************************************************)
(* Direct calls of a strategy and of find_by_extension                     *)
(***************************************************************************)
\* The candidates a caller can hand to a strategy: lists of distinct
\* languages of the registry.
CandidateLists(languages) ==
    {cands \in UNION {[1..n -> languages] : n \in 0..MaxCands} :
        \A i, j \in 1..Len(cands) : i # j => cands[i] # cands[j]}

\* strategy.call(b, cands), called once by the process
CallStrategy(strategy, b) ==
    /\ call = NoCall
    /\ \E reg \in AfterInit(once, registry, catalogue) :
           \E cands \in CandidateLists(Unwrap(reg.LANGUAGES)) :
               /\ registry' = reg
               /\ once' = "complete"
               /\ call' = [op |-> "call",
                           strategy |-> strategy,
                           blob |-> b,
                           candidates |-> cands,
                           result |-> StrategyCall(strategy, reg, b, cands)]
    /\ UNCHANGED catalogue
    /\ UNCHANGED detectVars
    /\ UNCHANGED threadVars
    /\ UNCHANGED directoryVars
    /\ UNCHANGED repositoryVars
    /\ UNCHANGED concurrentVars

\* Language::find_by_extension(filename), called once by the process
CallFindByExtension(filename) ==
    /\ call = NoCall
    /\ \E reg \in AfterInit(once, registry, catalogue) :
           /\ registry' = reg
           /\ once' = "complete"
           /\ call' = [op |-> "find_by_extension",
                       filename |-> filename,
                       result |-> FindByExtension(reg, filename)]
    /\ UNCHANGED catalogue
    /\ UNCHANGED detectVars
    /\ UNCHANGED threadVars
    /\ UNCHANGED directoryVars
    /\ UNCHANGED repositoryVars
    /\ UNCHANGED concurrentVars

NextStrategy ==
    \/ \E strategy \in SeqToSet(STRATEGIES), b \in Blobs : CallStrategy(strategy, b)
    \/ \E filename \in BlobNames : CallFindByExtension(filename)

SpecStrategy == Init /\ [][NextStrategy]_vars

\* C4: for each of the eight strategies, every blob and every non-empty
\* candidates list, every language of the returned list is a member of
\* candidates.
C4_SubsetOfCandidates ==
    (call.op = "call" /\ call.candidates # <<>>) =>
        \A i \in 1..Len(call.result) : Contains(call.candidates, call.result[i])

\* Heuristics, handed two candidates, has narrowed them to one.
C4_Witness ==
    /\ call.op = "call"
    /\ call.strategy = "Heuristics"
    /\ Len(call.candidates) = 2
    /\ Len(call.result) = 1

\* C8: find_by_extension(path) enumerates the trailing extensions of the
\* basename from the longest to the shortest and returns the languages of
\* the first of them that has any, none if there is none.
C8_LongestFirst ==
    call.op = "find_by_extension" =>
        call.result = FirstWithLanguages(Unwrap(registry.EXTENSION_INDEX),
                                         BlobExtensions(call.filename))

(***************************************************************************)
(* Lookups in the registry of a small catalogue                            *)
(***************************************************************************)
TinyNames ==
    {<<"X">>, <<"x">>, <<"Y">>, <<"x"," ","y">>, <<"x","-","y">>}

TinyAliasLists ==
    {<<>>,
     <<(<<"y">>)>>,
     <<(<<"Z">>)>>,
     <<(<<"x",",","y">>)>>,
     <<(<<>>)>>,
     <<(<<"y">>), (<<"x",",","y">>)>>}

\* an entry of languages.yml with a name and aliases only
TinyEntries ==
    {[name |-> n, aliases |-> a, extensions |-> <<>>, filenames |-> <<>>,
      interpreters |-> <<>>, language_id |-> 0,
      language_type |-> "other", group_name |-> NoneV] :
        n \in TinyNames, a \in TinyAliasLists}

\* The catalogues of at most n entries; the names, the keys of the YAML
\* map, differ.
RECURSIVE CataloguesUpTo(_)
CataloguesUpTo(n) ==
    IF n = 0 THEN {{}}
    ELSE CataloguesUpTo(n - 1) \cup
         UNION {{c \cup {e} :
                    e \in {t \in TinyEntries : \A l \in c : l.name # t.name}} :
                c \in CataloguesUpTo(n - 1)}

TinyCatalogues == CataloguesUpTo(MaxLangs) \ {{}}

\* the names a caller looks up: the names and aliases of the registry's
\* languages, as written and in lower case
Queries(reg) ==
    LET written ==
            UNION {{l.name} \cup SeqToSet(l.aliases) : l \in Unwrap(reg.LANGUAGES)}
    IN  written \cup {ToLower(q) : q \in written}

\* Language::lookup(name), called once by the process
CallLookup ==
    /\ call = NoCall
    /\ \E reg \in AfterInit(once, registry, catalogue) :
           \E name \in Queries(reg) :
               /\ registry' = reg
               /\ once' = "complete"
               /\ call' = [op |-> "lookup",
                           name |-> name,
                           result |-> Lookup(reg, name)]
    /\ UNCHANGED catalogue
    /\ UNCHANGED detectVars
    /\ UNCHANGED threadVars
    /\ UNCHANGED directoryVars
    /\ UNCHANGED repositoryVars
    /\ UNCHANGED concurrentVars

InitRegistry ==
    /\ catalogue \in TinyCatalogues
    /\ once = "incomplete"
    /\ registry = Uninitialised
    /\ call = NoCall
    /\ InitDetect
    /\ InitThreads
    /\ InitAggregator
    /\ InitConcurrent

NextRegistry == CallLookup

SpecRegistry == InitRegistry /\ [][NextRegistry]_vars

\* the name and the aliases of a language, in lower case
LoweredKeys(l) == {ToLower(l.name)} \cup {ToLower(a) : a \in SeqToSet(l.aliases)}

\* C7 as stated: given a catalogue whose names and aliases are pairwise
\* distinct, lookup of the name or of an alias of a language L of the
\* registry, in any case, returns L.
C7_LookupAsStated ==
    (/\ call.op = "lookup"
     /\ \A k, l \in catalogue :
            LET keys(e) == <<e.name>> \o e.aliases
            IN  /\ \A i, j \in 1..Len(keys(k)) : i # j => keys(k)[i] # keys(k)[j]
                /\ k # l => SeqToSet(keys(k)) \cap SeqToSet(keys(l)) = {})
    => \A l \in Unwrap(registry.LANGUAGES) :
           ToLower(call.name) \in LoweredKeys(l) => call.result = Some(l)

\* C7: given a catalogue whose names and aliases, the default aliases
\* among them, are non-empty, hold no comma and differ between languages
\* when compared without case, lookup of the name or of an alias of a
\* language L of the registry, in any case, returns L.
C7_Lookup ==
    (/\ call.op = "lookup"
     /\ \A k \in Unwrap(registry.LANGUAGES) :
            /\ \A key \in LoweredKeys(k) : key # <<>> /\ ~ContainsComma(key)
            /\ \A l \in Unwrap(registry.LANGUAGES) :
                   k # l => LoweredKeys(k) \cap LoweredKeys(l) = {})
    => \A l \in Unwrap(registry.LANGUAGES) :
           ToLower(call.name) \in LoweredKeys(l) => call.result = Some(l)

\* In a registry of two languages an alias written "Z" was looked up as
\* "z" and gave its language.
C7_Witness ==
    /\ call.op = "lookup"
    /\ Cardinality(Unwrap(registry.LANGUAGES)) = 2
    /\ \A k \in Unwrap(registry.LANGUAGES) :
           /\ \A key \in LoweredKeys(k) : key # <<>> /\ ~ContainsComma(key)
           /\ \A l \in Unwrap(registry.LANGUAGES) :
                  k # l => LoweredKeys(k) \cap LoweredKeys(l) = {}
    /\ call.name = <<"z">>
    /\ IsSome(call.result)
    /\ <<"Z">> \in SeqToSet(Unwrap(call.result).aliases)

(***************************************************************************)
(* Concurrent first access to the registry (language.rs INIT, init)        *)
(***************************************************************************)
Threads == 1..NThreads

\* the accessors the threads call, and the statics each unwraps
Accessors == {"all", "find_by_name", "find_by_extension"}

StaticsRead(op) ==
    CASE op = "all" -> {"LANGUAGES"}
      [] op = "find_by_name" -> {"NAME_INDEX", "LANGUAGES"}
      [] op = "find_by_extension" -> {"EXTENSION_INDEX", "LANGUAGES"}

\* Once::call_once runs its closure in the one thread that finds the Once
\* incomplete.
OnceRuns(o) == o = "incomplete"

\* A flag that lets a caller through as soon as initialisation has begun.
OnceReturnsWhileRunning(o) == o # "incomplete"

\* Once::call_once returns to a caller only when the Once is complete; a
\* caller that finds it running blocks.
OnceReturns(o) == o = "complete"

\* thread t calls an accessor, which calls Language::init()
ThreadCall(t, op) ==
    /\ threads[t].pc = "idle"
    /\ threads' = [threads EXCEPT ![t].pc = "call_once", ![t].op = op]
    /\ UNCHANGED <<loads, loading, call>>
    /\ UNCHANGED registryVars
    /\ UNCHANGED detectVars
    /\ UNCHANGED directoryVars
    /\ UNCHANGED repositoryVars
    /\ UNCHANGED concurrentVars

\* INIT.call_once: thread t is the one to run the closure
OnceBegin(t) ==
    /\ threads[t].pc = "call_once"
    /\ OnceRuns(once)
    /\ once' = "running"
    /\ threads' = [threads EXCEPT ![t].pc = "load"]
    /\ UNCHANGED <<catalogue, registry, loads, loading, call>>
    /\ UNCHANGED detectVars
    /\ UNCHANGED directoryVars
    /\ UNCHANGED repositoryVars
    /\ UNCHANGED concurrentVars

\* the closure: languages::load_language_data()
OnceLoad(t) ==
    /\ threads[t].pc = "load"
    /\ \E loaded \in Outcomes(catalogue) : loading' = Some(loaded)
    /\ loads' = loads + 1
    /\ threads' = [threads EXCEPT ![t].pc = "assign"]
    /\ UNCHANGED <<call>>
    /\ UNCHANGED registryVars
    /\ UNCHANGED detectVars
    /\ UNCHANGED directoryVars
    /\ UNCHANGED repositoryVars
    /\ UNCHANGED concurrentVars

\* the closure: the next of the eight assignments LANGUAGES = Some(langs),
\* ..., FILENAME_INDEX = Some(file_idx); after the last, INIT is complete
OnceAssign(t) ==
    /\ threads[t].pc = "assign"
    /\ LET done == Cardinality({s \in DOMAIN registry : IsSome(registry[s])})
           static == StaticNames[done + 1]
       IN  /\ registry' = [registry EXCEPT ![static] = Some(Unwrap(loading)[static])]
           /\ IF done + 1 = Len(StaticNames)
              THEN /\ once' = "complete"
                   /\ loading' = NoneV
                   /\ threads' = [threads EXCEPT ![t].pc = "read"]
              ELSE UNCHANGED <<once, loading, threads>>
    /\ UNCHANGED <<catalogue, loads, call>>
    /\ UNCHANGED detectVars
    /\ UNCHANGED directoryVars
    /\ UNCHANGED repositoryVars
    /\ UNCHANGED concurrentVars

\* INIT.call_once returns to thread t without running the closure
OnceReturn(t) ==
    /\ threads[t].pc = "call_once"
    /\ OnceReturns(once)
    /\ threads' = [threads EXCEPT ![t].pc = "read"]
    /\ UNCHANGED <<loads, loading, call>>
    /\ UNCHANGED registryVars
    /\ UNCHANGED detectVars
    /\ UNCHANGED directoryVars
    /\ UNCHANGED repositoryVars
    /\ UNCHANGED concurrentVars

\* the accessor reads its statics: X.as_ref()
ThreadRead(t) ==
    /\ threads[t].pc = "read"
    /\ threads' = [threads EXCEPT
           ![t].pc = "returned",
           ![t].seen = [s \in StaticsRead(threads[t].op) |-> registry[s]]]
    /\ UNCHANGED <<loads, loading, call>>
    /\ UNCHANGED registryVars
    /\ UNCHANGED detectVars
    /\ UNCHANGED directoryVars
    /\ UNCHANGED repositoryVars
    /\ UNCHANGED concurrentVars

InitInit ==
    /\ catalogue = SampleCatalogue
    /\ once = "incomplete"
    /\ registry = Uninitialised
    /\ call = NoCall
    /\ InitDetect
    /\ threads = [t \in Threads |-> [pc |-> "idle", op |-> "none", seen |-> <<>>]]
    /\ loads = 0
    /\ loading = NoneV
    /\ InitAggregator
    /\ InitConcurrent

NextInit ==
    \E t \in Threads :
        \/ \E op \in Accessors : ThreadCall(t, op)
        \/ OnceBegin(t)
        \/ OnceLoad(t)
        \/ OnceAssign(t)
        \/ OnceReturn(t)
        \/ ThreadRead(t)

SpecInit == InitInit /\ [][NextInit]_vars

\* C10: when several threads make their first registry access at once, the
\* catalogue is loaded and the indices are built exactly once, no reader
\* sees an uninitialised or partly built index, and what a reader has seen
\* is what the registry holds ever after.
C10_InitialisedOnce ==
    /\ loads <= 1
    /\ once = "complete" =>
           /\ loads = 1
           /\ \E loaded \in Outcomes(catalogue) : registry = Initialised(loaded)
    /\ \A t \in Threads :
           /\ threads[t].pc \in {"read", "returned"} => once = "complete"
           /\ threads[t].pc = "returned" =>
                  \A s \in DOMAIN threads[t].seen :
                      /\ IsSome(threads[t].seen[s])
                      /\ threads[t].seen[s] = registry[s]

\* One thread is in the middle of the eight assignments while another
\* waits in call_once.
C10_Witness ==
    \E t, u \in Threads :
        /\ threads[t].pc = "assign"
        /\ IsSome(registry.LANGUAGES)
        /\ registry.FILENAME_INDEX = NoneV
        /\ threads[u].pc = "call_once"

(***************************************************************************)
(* The path pattern tables (vendor.rs, blob.rs) and                        *)
(* BlobHelper::include_in_language_stats                                   *)
(***************************************************************************)
\* the literal lit stands in s at position i
OccursAt(s, i, lit) ==
    /\ i >= 1
    /\ i + Len(lit) - 1 <= Len(s)
    /\ SubSeq(s, i, i + Len(lit) - 1) = lit

\* the pattern ^lit
AtStart(s, lit) == OccursAt(s, 1, lit)

\* the pattern (^|/)lit
AtSegment(s, lit) ==
    \E i \in 1..Len(s) : OccursAt(s, i, lit) /\ (i = 1 \/ s[i - 1] = "/")

\* the pattern (^|/)lit$
SegmentAtEnd(s, lit) ==
    /\ EndsWith(s, lit)
    /\ (Len(s) = Len(lit) \/ s[Len(s) - Len(lit)] = "/")

\* the pattern lit, anywhere
Anywhere(s, lit) == \E i \in 1..Len(s) : OccursAt(s, i, lit)

\* the pattern (^|/)[Vv]+endor/
VendorDirectory(s) ==
    \E i \in 1..Len(s), k \in 1..Len(s) :
        /\ i = 1 \/ s[i - 1] = "/"
        /\ i + k - 1 <= Len(s)
        /\ \A j \in i..(i + k - 1) : s[j] \in {"V", "v"}
        /\ OccursAt(s, i + k, <<"e","n","d","o","r","/">>)

\* VENDORED_REGEXP of blob.rs: the three patterns BlobHelper::is_vendored
\* tests the name against
VENDORED_REGEXP(name) ==
    \/ AtSegment(name, <<"c","a","c","h","e","/">>)
    \/ AtStart(name, <<"D","e","p","e","n","d","e","n","c","i","e","s","/">>) \/ AtStart(name, <<"d","e","p","e","n","d","e","n","c","i","e","s","/">>)
    \/ AtSegment(name, <<"d","i","s","t","/">>)

\* VENDOR_REGEX of vendor.rs: the directory and suffix patterns of the
\* table (the bootstrap, jquery, yarn and autoconf patterns are left out)
VENDOR_REGEX(path) ==
    \/ AtSegment(path, <<"c","a","c","h","e","/">>)
    \/ AtStart(path, <<"D","e","p","e","n","d","e","n","c","i","e","s","/">>) \/ AtStart(path, <<"d","e","p","e","n","d","e","n","c","i","e","s","/">>)
    \/ AtSegment(path, <<"d","i","s","t","/">>)
    \/ AtStart(path, <<"d","e","p","s","/">>)
    \/ SegmentAtEnd(path, <<"c","o","n","f","i","g","u","r","e">>)
    \/ AtSegment(path, <<"n","o","d","e","_","m","o","d","u","l","e","s","/">>)
    \/ AtSegment(path, <<"b","o","w","e","r","_","c","o","m","p","o","n","e","n","t","s","/">>)
    \/ \E sep \in {<<".">>, <<"-">>}, ext \in {<<"j","s">>, <<"c","s","s">>} :
           EndsWith(path, sep \o <<"m","i","n",".">> \o ext)
    \/ \E third \in {<<"3","r","d">>, <<"T","h","i","r","d">>, <<"t","h","i","r","d">>},
          sep \in {<<>>, <<"-">>, <<"_">>},
          party \in {<<"P","a","r","t","y","/">>, <<"p","a","r","t","y","/">>} :
           Anywhere(path, third \o sep \o party)
    \/ AtSegment(path, <<"v","e","n","d","o","r","/">>) \/ AtSegment(path, <<"v","e","n","d","o","r","s","/">>)
    \/ \E e \in {<<"E">>, <<"e">>}, als \in {<<>>, <<"a","l">>, <<"a","l","s">>} :
           AtSegment(path, e \o <<"x","t","e","r","n">> \o als \o <<"/">>)
    \/ VendorDirectory(path)

\* vendor::is_vendored
VendorIsVendored(path) == VENDOR_REGEX(path)

\* DOCUMENTATION_REGEXP of blob.rs
DOCUMENTATION_REGEXP(name) ==
    \/ \E d \in {<<"D">>, <<"d">>}, s \in {<<>>, <<"s">>} :
           AtStart(name, d \o <<"o","c">> \o s \o <<"/">>)
    \/ \E d \in {<<"D">>, <<"d">>} : AtSegment(name, d \o <<"o","c","u","m","e","n","t","a","t","i","o","n","/">>)
    \/ \E g \in {<<"G">>, <<"g">>} : AtSegment(name, g \o <<"r","o","o","v","y","d","o","c","/">>)

\* BlobHelper::is_vendored
IsVendored(b) == VENDORED_REGEXP(b.name)

\* BlobHelper::is_documentation
IsDocumentation(b) == DOCUMENTATION_REGEXP(b.name)

\* BlobHelper::is_generated.  Generated::is_generated (generated.rs) decides
\* on the name and the data; what it decides is an attribute of the blob.
IsGenerated(b) == b.generated

\* The loop of detect over STRATEGIES from its k-th strategy on.
RECURSIVE DetectLoop(_, _, _, _)
DetectLoop(reg, b, cands, k) ==
    IF k > Len(STRATEGIES) THEN AfterLoop(cands)
    ELSE LET body == LoopBody(cands, StrategyCall(STRATEGIES[k], reg, b, cands))
         IN  IF IsSome(body.returns) THEN body.returns
             ELSE DetectLoop(reg, b, body.candidates, k + 1)

\* detect(blob, allow_empty) on the statics reg, as a value
Detect(reg, b, ae) ==
    IF Bail(b, ae) THEN NoneV ELSE DetectLoop(reg, b, <<>>, 1)

\* BlobHelper::language
BlobLanguage(reg, b) == Detect(reg, b, FALSE)

\* matches!(language.language_type, Programming | Markup)
CountedType(language) == language.language_type \in {"programming", "markup"}

\* BlobHelper::include_in_language_stats
IncludeInLanguageStats(reg, b) ==
    IF IsVendored(b) \/ IsDocumentation(b) \/ IsGenerated(b) THEN FALSE
    ELSE /\ IsSome(BlobLanguage(reg, b))
         /\ CountedType(Unwrap(BlobLanguage(reg, b)))

\* the paths of the blobs asked whether they count
StatPaths ==
    {<<"s","r","c","/","m","a","i","n",".","c">>,
     <<"l","i","b","/","a","p","p",".","j","s">>,
     <<"s","r","c","/","d","a","t","a",".","x","m","l">>,
     <<"d","e","p","s","/","o","p","e","n","s","s","l","/","m","d","5",".","c">>,
     <<"n","o","d","e","_","m","o","d","u","l","e","s","/","r","e","a","c","t","/","i","n","d","e","x",".","j","s">>,
     <<"l","i","b","/","a","p","p",".","m","i","n",".","j","s">>,
     <<"t","h","i","r","d","-","p","a","r","t","y","/","l","i","b","r","a","r","y",".","j","s">>,
     <<"v","e","n","d","o","r","/","x",".","j","s">>,
     <<"d","i","s","t","/","b","u","n","d","l","e",".","j","s">>,
     <<"p","a","t","h","/","t","o","/","c","a","c","h","e","/","f","i","l","e",".","j","s">>,
     <<"D","e","p","e","n","d","e","n","c","i","e","s","/","a",".","c">>,
     <<"d","o","c","s","/","g","u","i","d","e",".","c">>}

StatContents ==
    {<<>>,
     <<NulLine>>,
     <<IncludeLine, ProseLine, ProseLine>>,
     <<ReactLine, ProseLine, ProseLine>>,
     <<XmlLine, ProjectLine>>}

StatBlobs ==
    [name : StatPaths, data : StatContents, symlink : {FALSE},
     generated : BOOLEAN]

\* blob.include_in_language_stats(), called once by the process; the
\* answer of vendor::is_vendored on the blob's path is recorded with it
CallIncludeInLanguageStats ==
    /\ call = NoCall
    /\ \E reg \in AfterInit(once, registry, catalogue) :
           /\ registry' = reg
           /\ once' = "complete"
           /\ call' = [op |-> "include_in_language_stats",
                       is_vendored |-> VendorIsVendored(blob.name),
                       result |-> IncludeInLanguageStats(reg, blob)]
    /\ UNCHANGED catalogue
    /\ UNCHANGED detectVars
    /\ UNCHANGED threadVars
    /\ UNCHANGED directoryVars
    /\ UNCHANGED repositoryVars
    /\ UNCHANGED concurrentVars

InitBlob ==
    /\ catalogue = SampleCatalogue
    /\ once = "incomplete"
    /\ registry = Uninitialised
    /\ call = NoCall
    /\ blob \in StatBlobs
    /\ allow_empty = FALSE
    /\ pc = "idle"
    /\ next_strategy = 1
    /\ candidates = <<>>
    /\ verdict = NoneV
    /\ trace = <<>>
    /\ first_run = NoneV
    /\ processes = 1
    /\ InitThreads
    /\ InitAggregator
    /\ InitConcurrent

NextBlob == CallIncludeInLanguageStats

SpecBlob == InitBlob /\ [][NextBlob]_vars

\* C11: a blob at a path that vendor::is_vendored matches is not included
\* in the language statistics, whatever its content.
C11_VendoredExcluded ==
    (call.op = "include_in_language_stats" /\ call.is_vendored)
        => ~call.result

(***************************************************************************)
(* The queries over a cache (repository.rs): languages, language, size,    *)
(* breakdown_by_file                                                       *)
(***************************************************************************)
\* the characters of names and paths, in the order of their bytes
ByteOrder ==
    <<" ", "+", "-", ".", "/">>
        \o <<"0", "1", "2", "3", "4", "5", "6", "7", "8", "9">>
        \o UpperLetters \o <<"_">> \o LowerLetters

ByteRank(c) == CHOOSE i \in 1..Len(ByteOrder) : ByteOrder[i] = c

\* a < b for strings (Ord for String): the first differing byte decides,
\* a proper prefix is the smaller
StrLess(a, b) ==
    \E i \in 1..(Len(b)) :
        /\ \A j \in 1..(i - 1) : j <= Len(a) /\ a[j] = b[j]
        /\ \/ i = Len(a) + 1
           \/ i <= Len(a) /\ ByteRank(a[i]) < ByteRank(b[i])

\* Vec<String>::sort of the strings of a set
RECURSIVE SortStrings(_)
SortStrings(S) ==
    IF S = {} THEN <<>>
    ELSE LET least == CHOOSE x \in S : \A y \in S \ {x} : StrLess(x, y)
         IN  <<least>> \o SortStrings(S \ {least})

\* the sum of cache[p].size over the paths of P
RECURSIVE SumSizes(_, _)
SumSizes(cache, P) ==
    IF P = {} THEN 0
    ELSE LET p == CHOOSE x \in P : TRUE
         IN  cache[p].size + SumSizes(cache, P \ {p})

\* languages(): *sizes.entry(language).or_insert(0) += size over the cache
Languages(cache) ==
    [l \in {cache[p].language : p \in DOMAIN cache} |->
        SumSizes(cache, {p \in DOMAIN cache : cache[p].language = l})]

\* languages.iter().max_by_key(|&(_, size)| size) when the map is iterated
\* in the given order: the last of the greatest elements
MaxByKey(sizes, order) ==
    LET greatest ==
            CHOOSE i \in 1..Len(order) :
                /\ \A j \in 1..Len(order) : sizes[order[j]] <= sizes[order[i]]
                /\ \A j \in (i + 1)..Len(order) :
                       sizes[order[j]] < sizes[order[i]]
    IN  order[greatest]

\* language(): None on an empty map, else the max_by_key of an iteration
\* of the HashMap; the values language() can return
PrimaryLanguages(cache) ==
    IF DOMAIN Languages(cache) = {} THEN {NoneV}
    ELSE {Some(MaxByKey(Languages(cache), order)) :
              order \in Orders(DOMAIN Languages(cache))}

\* size(): languages.values().sum()
RECURSIVE SumValues(_, _)
SumValues(sizes, K) ==
    IF K = {} THEN 0
    ELSE LET k == CHOOSE x \in K : TRUE
         IN  sizes[k] + SumValues(sizes, K \ {k})

TotalSize(cache) == SumValues(Languages(cache), DOMAIN Languages(cache))

\* breakdown_by_file(): the paths of each language, sorted
BreakdownByFile(cache) ==
    [l \in {cache[p].language : p \in DOMAIN cache} |->
        SortStrings({p \in DOMAIN cache : cache[p].language = l})]

\* the LanguageStats that stats() and analyze() can return over a cache
StatsOf(cache) ==
    {[language_breakdown |-> Languages(cache),
      total_size |-> TotalSize(cache),
      language |-> primary,
      file_breakdown |-> BreakdownByFile(cache)] :
        primary \in PrimaryLanguages(cache)}

\* language.group(): the language named by group_name, or by the name
Group(reg, language) ==
    FindByName(reg,
               IF IsSome(language.group_name) THEN Unwrap(language.group_name)
               ELSE language.name)

\* (language.group().unwrap().name.clone(), blob.size())
CacheEntry(reg, b) ==
    [language |-> Unwrap(Group(reg, Unwrap(BlobLanguage(reg, b)))).name,
     size |-> Size(b)]

\* A map keyed by the file's name in its directory.
KeyByFileName(path) == FileName(path)

\* the key of a file in the cache: its path
CacheKey(path) == path

\* "Update file map if included in language stats"
UpdateFileMap(reg, file_map, path, b) ==
    IF IncludeInLanguageStats(reg, b) /\ IsSome(BlobLanguage(reg, b))
    THEN Put(file_map, CacheKey(path), CacheEntry(reg, b))
    ELSE file_map

(***************************************************************************)
(* DirectoryAnalyzer (repository.rs): analyze and process_directory        *)
(***************************************************************************)
\* the most files a directory holds
MaxFiles == 3
\* how many times analyze() is called on the analyzer
MaxAnalyses == 2

\* The files a directory may hold, by their path below the root.  A file
\* is readable when File::open and read_to_end succeed on it.
DirectoryFiles ==
    {[path |-> <<"m","a","i","n",".","c">>, data |-> <<ProseLine>>, symlink |-> FALSE,
      generated |-> FALSE, readable |-> TRUE],
     [path |-> <<"a","p","p",".","j","s">>, data |-> <<ProseLine>>, symlink |-> FALSE,
      generated |-> FALSE, readable |-> TRUE],
     [path |-> <<"l","i","b","/","m","a","i","n",".","c">>, data |-> <<IncludeLine, ProseLine, ProseLine>>,
      symlink |-> FALSE, generated |-> FALSE, readable |-> TRUE],
     [path |-> <<"t","o","o","l",".","m","a","n">>, data |-> <<ThLine, ShLine, ProseLine>>,
      symlink |-> FALSE, generated |-> FALSE, readable |-> TRUE],
     [path |-> <<"d","a","t","a",".","x","m","l">>, data |-> <<XmlLine, ProjectLine>>,
      symlink |-> FALSE, generated |-> FALSE, readable |-> TRUE],
     [path |-> <<"d","i","s","t","/","a","p","p",".","j","s">>, data |-> <<ReactLine, ProseLine, ProseLine>>,
      symlink |-> FALSE, generated |-> FALSE, readable |-> TRUE],
     [path |-> <<"g","e","n",".","j","s">>, data |-> <<ReactLine, ProseLine, ProseLine>>,
      symlink |-> FALSE, generated |-> TRUE, readable |-> TRUE],
     [path |-> <<"l","i","n","k",".","c">>, data |-> <<>>, symlink |-> TRUE,
      generated |-> FALSE, readable |-> TRUE],
     [path |-> <<"s","e","c","r","e","t",".","c">>, data |-> <<IncludeLine, ProseLine, ProseLine>>,
      symlink |-> FALSE, generated |-> FALSE, readable |-> FALSE]}

\* the roots handed to DirectoryAnalyzer::new
Roots == {<<"r","e","p","o">>, <<"d","i","s","t">>}

\* the directories: at most MaxFiles files
Directories ==
    [root : Roots,
     files : {F \in SUBSET DirectoryFiles : Cardinality(F) <= MaxFiles}]

\* entry.path(): the root joined with the path below it
EntryPath(root, path) == root \o <<"/">> \o path

\* FileBlob::new(entry.path()) on a file it can read; a symlink is not read
FileBlobNew(root, f) ==
    [name |-> EntryPath(root, f.path),
     data |-> IF f.symlink THEN <<>> ELSE f.data,
     symlink |-> f.symlink,
     generated |-> f.generated]

\* FileBlob::new(entry.path()) is Err: File::open or read_to_end fails
FileBlobNewFails(f) == ~f.symlink /\ ~f.readable

\* DirectoryAnalyzer::new(root)
NewAnalyzer == [cache |-> NoneV, analyses |-> 0]

\* analyze() is called: file_map is empty and the walk begins
Analyze ==
    /\ walk = NoneV
    /\ analyzer.analyses < MaxAnalyses
    /\ analyzer' = [analyzer EXCEPT !.analyses = @ + 1]
    /\ first_outcome' =
           IF analyzer.analyses = 1
           THEN Some([outcome |-> outcome, cache |-> analyzer.cache])
           ELSE first_outcome
    /\ outcome' = NoneV
    /\ walk' = Some([pending |-> dir.files,
                     visited |-> <<>>,
                     file_map |-> EmptyMap])
    /\ UNCHANGED <<dir, call>>
    /\ UNCHANGED registryVars
    /\ UNCHANGED detectVars
    /\ UNCHANGED threadVars
    /\ UNCHANGED repositoryVars
    /\ UNCHANGED concurrentVars

\* One iteration of the loop of process_directory, on the file WalkDir
\* yields next: any of those it has yet to yield.
ProcessEntry ==
    /\ walk # NoneV
    /\ \E f \in Unwrap(walk).pending :
         \E reg \in AfterInit(once, registry, catalogue) :
           LET w == Unwrap(walk)
           IN  IF FileBlobNewFails(f)
               THEN \* FileBlob::new(entry.path())? returns the error
                    /\ walk' = NoneV
                    /\ outcome' = Some([ok |-> FALSE,
                                        visited |-> Append(w.visited, f.path)])
                    /\ UNCHANGED <<registry, once>>
               ELSE /\ walk' = Some([w EXCEPT
                            !.pending = @ \ {f},
                            !.visited = Append(@, f.path),
                            !.file_map = UpdateFileMap(reg, @, f.path,
                                             FileBlobNew(dir.root, f))])
                    /\ registry' = reg
                    /\ once' = "complete"
                    /\ UNCHANGED outcome
    /\ UNCHANGED <<catalogue, dir, analyzer, first_outcome, call>>
    /\ UNCHANGED detectVars
    /\ UNCHANGED threadVars
    /\ UNCHANGED repositoryVars
    /\ UNCHANGED concurrentVars

\* The walk is over: analyze stores the cache and returns the statistics.
AnalyzeReturn ==
    /\ walk # NoneV
    /\ Unwrap(walk).pending = {}
    /\ analyzer' = [analyzer EXCEPT !.cache = Some(Unwrap(walk).file_map)]
    /\ \E stats \in StatsOf(Unwrap(walk).file_map) :
           outcome' = Some([ok |-> TRUE,
                            visited |-> Unwrap(walk).visited,
                            stats |-> stats])
    /\ walk' = NoneV
    /\ UNCHANGED <<dir, first_outcome, call>>
    /\ UNCHANGED registryVars
    /\ UNCHANGED detectVars
    /\ UNCHANGED threadVars
    /\ UNCHANGED repositoryVars
    /\ UNCHANGED concurrentVars

InitDirectory ==
    /\ catalogue = SampleCatalogue
    /\ once = "incomplete"
    /\ registry = Uninitialised
    /\ call = NoCall
    /\ InitDetect
    /\ InitThreads
    /\ dir \in Directories
    /\ walk = NoneV
    /\ analyzer = NewAnalyzer
    /\ outcome = NoneV
    /\ first_outcome = NoneV
    /\ git = NoneV
    /\ repository = NoneV
    /\ builds = NoneV
    /\ answer = NoneV
    /\ InitConcurrent

NextDirectory ==
    \/ Analyze
    \/ ProcessEntry
    \/ AnalyzeReturn

SpecDirectory == InitDirectory /\ [][NextDirectory]_vars

\* C12: two walks of the same files, in whatever orders, end alike and
\* leave the same cache of path -> (group language, bytes), and with it
\* the same bytes per language.
C12_OrderIndependent ==
    (outcome # NoneV /\ first_outcome # NoneV)
        => LET first == Unwrap(first_outcome)
           IN  /\ analyzer.cache = first.cache
               /\ Unwrap(outcome).ok = Unwrap(first.outcome).ok
               /\ Unwrap(outcome).ok =>
                      Unwrap(outcome).stats.language_breakdown
                          = Unwrap(first.outcome).stats.language_breakdown

\* Three files were walked twice, in different orders, and at least two
\* of them are in the cache.
C12_Witness ==
    /\ outcome # NoneV
    /\ first_outcome # NoneV
    /\ Unwrap(outcome).ok
    /\ Len(Unwrap(outcome).visited) = 3
    /\ Unwrap(outcome).visited # Unwrap(Unwrap(first_outcome).outcome).visited
    /\ Cardinality(DOMAIN Unwrap(analyzer.cache)) >= 2

\* the languages with the greatest total of a breakdown
Greatest(sizes) ==
    {l \in DOMAIN sizes : \A k \in DOMAIN sizes : sizes[k] <= sizes[l]}

\* C19: language() is None on an empty cache and else the language with
\* the greatest total; of several with the greatest total, the one whose
\* name is the smallest.
C19_PrimaryLanguage ==
    (outcome # NoneV /\ Unwrap(outcome).ok)
        => LET stats == Unwrap(outcome).stats
               sizes == stats.language_breakdown
           IN  IF DOMAIN sizes = {} THEN stats.language = NoneV
               ELSE /\ IsSome(stats.language)
                    /\ Unwrap(stats.language) \in Greatest(sizes)
                    /\ \A l \in Greatest(sizes) \ {Unwrap(stats.language)} :
                           StrLess(Unwrap(stats.language), l)

\* C20: when a file of the directory cannot be read, analyze() still
\* succeeds and its cache holds every other file that counts.
C20_SkipsUnreadable ==
    (outcome # NoneV /\ \E f \in dir.files : FileBlobNewFails(f))
        => /\ Unwrap(outcome).ok
           /\ \A f \in dir.files :
                  (/\ ~FileBlobNewFails(f)
                   /\ IncludeInLanguageStats(registry, FileBlobNew(dir.root, f)))
                      => f.path \in DOMAIN Unwrap(analyzer.cache)

(***************************************************************************)
(* Repository (repository.rs): the snapshot aggregator over a git tree,    *)
(* full and incremental                                                    *)
(***************************************************************************)
MAX_TREE_SIZE == 100000

\* the most files a tree holds
MaxEntries == 2
\* how many queries are made on the Repository
MaxQueries == 2

\* FileMode::Blob, FileMode::Link, FileMode::Commit, in octal
ModeBlob == "100644"
ModeLink == "120000"
ModeCommit == "160000"

\* The files of the trees, by path.  A path has one or more versions; a
\* submodule has no blob.
TreeFiles ==
    {[path |-> <<"a","p","p",".","j","s">>, data |-> <<ReactLine, ProseLine, ProseLine>>,
      mode |-> ModeBlob, generated |-> FALSE],
     [path |-> <<"a","p","p",".","j","s">>, data |-> <<IncludeLine, ProseLine, ProseLine>>,
      mode |-> ModeBlob, generated |-> FALSE],
     [path |-> <<"a","p","p",".","j","s">>, data |-> <<NulLine>>,
      mode |-> ModeBlob, generated |-> FALSE],
     [path |-> <<"s","r","c","/","m","a","i","n",".","c">>, data |-> <<IncludeLine, ProseLine, ProseLine>>,
      mode |-> ModeBlob, generated |-> FALSE],
     [path |-> <<"s","r","c","/","m","a","i","n",".","c">>, data |-> <<TargetLine>>,
      mode |-> ModeLink, generated |-> FALSE],
     [path |-> <<"s","r","c","/",".","g","i","t","a","t","t","r","i","b","u","t","e","s">>, data |-> <<ProseLine>>,
      mode |-> ModeBlob, generated |-> FALSE],
     [path |-> <<"s","r","c","/",".","g","i","t","a","t","t","r","i","b","u","t","e","s">>, data |-> <<ProseLine, ProseLine>>,
      mode |-> ModeBlob, generated |-> FALSE],
     [path |-> <<"s","u","b">>, data |-> <<>>,
      mode |-> ModeCommit, generated |-> FALSE]}

\* the trees: at most MaxEntries files, one version of a path each
Trees ==
    {T \in SUBSET TreeFiles :
        /\ Cardinality(T) <= MaxEntries
        /\ \A e, f \in T : e.path = f.path => e = f}

\* the two commits of the git repository
OldCommit == "c1"
NewCommit == "c2"

\* the names of the entries of the tree at prefix: the next segment of
\* the paths below it
EntryNames(tree, prefix) ==
    {LET rest == SubSeq(e.path, Len(prefix) + 1, Len(e.path))
         slashes == {i \in 1..Len(rest) : rest[i] = "/"}
         stop == IF slashes = {} THEN Len(rest)
                 ELSE (CHOOSE i \in slashes : \A j \in slashes : i <= j) - 1
     IN  SubSeq(rest, 1, stop) :
        e \in {f \in tree : OccursAt(f.path, 1, prefix)}}

\* entry.kind() is Some(ObjectType::Tree): the name is a directory
IsSubtree(tree, path) == \A e \in tree : e.path # path

\* the file of the tree at a path
EntryAt(tree, path) == CHOOSE e \in tree : e.path = path

\* count_tree_entries from the entries `names` of the tree at prefix on:
\* every entry counts, a subtree is entered, and the loop is left when the
\* count reaches max_tree_size
RECURSIVE CountTreeEntries(_, _, _, _, _)
CountTreeEntries(tree, prefix, names, count, max) ==
    IF names = <<>> THEN count
    ELSE LET path == prefix \o Head(names)
             counted == count + 1
         IN  IF counted >= max THEN counted
             ELSE CountTreeEntries(
                      tree, prefix, Tail(names),
                      IF IsSubtree(tree, path)
                      THEN CountTreeEntries(
                               tree, path \o <<"/">>,
                               SortStrings(EntryNames(tree, path \o <<"/">>)),
                               counted, max)
                      ELSE counted,
                      max)

\* get_tree_size
GetTreeSize(tree, max) ==
    CountTreeEntries(tree, <<>>, SortStrings(EntryNames(tree, <<>>)), 0, max)

\* if tree_size >= self.max_tree_size { return Ok(HashMap::new()); }
Refused(tree_size, max) == tree_size >= max

\* LazyBlob::new(repo, oid, path, mode)
LazyBlobNew(e) ==
    [name |-> e.path,
     data |-> e.data,
     symlink |-> e.mode = ModeLink,
     generated |-> e.generated]

\* process_tree from the entries `names` of the tree at prefix on
RECURSIVE ProcessTree(_, _, _, _, _)
ProcessTree(reg, tree, prefix, names, file_map) ==
    IF names = <<>> THEN file_map
    ELSE LET path == prefix \o Head(names)
         IN  ProcessTree(
                 reg, tree, prefix, Tail(names),
                 IF IsSubtree(tree, path)
                 THEN ProcessTree(reg, tree, path \o <<"/">>,
                                  SortStrings(EntryNames(tree, path \o <<"/">>)),
                                  file_map)
                 ELSE IF EntryAt(tree, path).mode \in {ModeLink, ModeCommit}
                 THEN file_map
                 ELSE UpdateFileMap(reg, file_map, path,
                                    LazyBlobNew(EntryAt(tree, path))))

\* self.process_tree(&tree, "", &mut file_map)
FullScan(reg, tree, file_map) ==
    ProcessTree(reg, tree, <<>>, SortStrings(EntryNames(tree, <<>>)), file_map)

\* the deltas of diff_tree_to_tree(old, new, None) at one path: a file on
\* one side only is Deleted or Added, a changed file is Modified, and a
\* file that became a link (or a link a file) is Deleted, then Added.
\* No rename is detected: find_similar is not called.
DeltasAt(old_tree, new_tree, path) ==
    LET in_old == \E e \in old_tree : e.path = path
        in_new == \E e \in new_tree : e.path = path
        deleted == [status |-> "Deleted", old_path |-> path,
                    new_path |-> path, new_file |-> NoneV]
        added == [status |-> "Added", old_path |-> path, new_path |-> path,
                  new_file |-> Some(EntryAt(new_tree, path))]
        modified == [status |-> "Modified", old_path |-> path,
                     new_path |-> path,
                     new_file |-> Some(EntryAt(new_tree, path))]
    IN  IF in_old /\ ~in_new THEN <<deleted>>
        ELSE IF in_new /\ ~in_old THEN <<added>>
        ELSE IF EntryAt(old_tree, path) = EntryAt(new_tree, path) THEN <<>>
        ELSE IF EntryAt(old_tree, path).mode = EntryAt(new_tree, path).mode
        THEN <<modified>>
        ELSE <<deleted, added>>

RECURSIVE DeltasOver(_, _, _)
DeltasOver(old_tree, new_tree, paths) ==
    IF paths = <<>> THEN <<>>
    ELSE DeltasAt(old_tree, new_tree, Head(paths))
             \o DeltasOver(old_tree, new_tree, Tail(paths))

\* diff.deltas(): the deltas in the order of their paths
Deltas(old_tree, new_tree) ==
    DeltasOver(old_tree, new_tree,
               SortStrings({e.path : e \in old_tree \cup new_tree}))

\* "Check if any .gitattributes files were changed"
GitattributesChanged(deltas) ==
    \E i \in 1..Len(deltas) :
        FileName(deltas[i].new_path) = <<".","g","i","t","a","t","t","r","i","b","u","t","e","s">>

\* An invalidation that keeps the predecessor's entries.
KeepFileMap(file_map) == file_map

\* file_map.clear()
ClearFileMap(file_map) == EmptyMap

\* A removal that leaves the old path in the map.
KeepOldPath(file_map, old_path) == file_map

\* file_map.remove(&old_path)
RemoveOldPath(file_map, old_path) ==
    [p \in (DOMAIN file_map) \ {old_path} |-> file_map[p]]

\* A test that lets only added files through.
IsAdded(status) == status = "Added"

\* delta.status() == Added || delta.status() == Modified
IsAddedOrModified(status) == status \in {"Added", "Modified"}

\* the body of the loop over diff.deltas() for one delta
ProcessDelta(reg, delta, file_map) ==
    LET removed == RemoveOldPath(file_map, delta.old_path)
    IN  IF delta.status = "Deleted" THEN removed
        ELSE LET e == Unwrap(delta.new_file)
                 is_binary == e.mode # ModeCommit /\ ContainsNul(e.data)
             IN  IF is_binary THEN removed
                 ELSE IF ~IsAddedOrModified(delta.status) THEN removed
                 ELSE IF e.mode \in {ModeLink, ModeCommit} THEN removed
                 ELSE UpdateFileMap(reg, removed, delta.new_path,
                                    LazyBlobNew(e))

\* "Process only changed files"
RECURSIVE ProcessDeltas(_, _, _)
ProcessDeltas(reg, deltas, file_map) ==
    IF deltas = <<>> THEN file_map
    ELSE ProcessDeltas(reg, Tail(deltas),
                       ProcessDelta(reg, Head(deltas), file_map))

\* compute_stats on the repository g: the file map it returns, whether it
\* refused the tree, and how many times it called get_tree.  The tree is
\* scanned in full without a predecessor and when a .gitattributes file
\* changed, after file_map.clear().
ComputeStats(reg, repo, g) ==
    LET tree == g[repo.commit_oid]
        file_map == IF IsSome(repo.old_stats) THEN Unwrap(repo.old_stats)
                    ELSE EmptyMap
        incremental == IsSome(repo.old_commit_oid)
        deltas == IF incremental
                  THEN Deltas(g[Unwrap(repo.old_commit_oid)], tree)
                  ELSE <<>>
        changed == incremental /\ GitattributesChanged(deltas)
    IN  IF Refused(GetTreeSize(tree, repo.max_tree_size), repo.max_tree_size)
        THEN [cache |-> EmptyMap, refused |-> TRUE, trees |-> 1]
        ELSE IF incremental /\ ~changed
        THEN [cache |-> ProcessDeltas(reg, deltas, file_map),
              refused |-> FALSE, trees |-> 3]
        ELSE [cache |-> FullScan(reg, tree,
                                 IF changed THEN ClearFileMap(file_map)
                                 ELSE file_map),
              refused |-> FALSE,
              trees |-> IF changed THEN 4 ELSE 2]

\* A get_cache that computes the statistics on every call.
GetCacheAlways(reg, repo, g) ==
    IF IsSome(repo.old_commit_oid) /\ Unwrap(repo.old_commit_oid) = repo.commit_oid
    THEN [cache |-> repo.old_stats, computed |-> <<>>]
    ELSE LET stats == ComputeStats(reg, repo, g)
         IN  [cache |-> Some(stats.cache), computed |-> <<stats>>]

\* get_cache: the cache after the call, and the compute_stats it made
GetCache(reg, repo, g) ==
    IF repo.cache = NoneV
    THEN IF IsSome(repo.old_commit_oid)
            /\ Unwrap(repo.old_commit_oid) = repo.commit_oid
         THEN [cache |-> repo.old_stats, computed |-> <<>>]
         ELSE LET stats == ComputeStats(reg, repo, g)
              IN  [cache |-> Some(stats.cache), computed |-> <<stats>>]
    ELSE [cache |-> repo.cache, computed |-> <<>>]

\* the queries; each calls get_cache once.  stats() is languages(), size(),
\* language() and breakdown_by_file() one after the other.
QueryNames == {"languages", "language", "size", "breakdown_by_file"}

\* what a query can return over the cache
Answers(q, cache) ==
    CASE q = "languages" -> {Languages(cache)}
      [] q = "language" -> PrimaryLanguages(cache)
      [] q = "size" -> {TotalSize(cache)}
      [] q = "breakdown_by_file" -> {BreakdownByFile(cache)}

\* Repository::new(path, commit, max_tree_size)
RepositoryNew(max) ==
    [commit_oid |-> NewCommit,
     max_tree_size |-> IF IsSome(max) THEN Unwrap(max) ELSE MAX_TREE_SIZE,
     old_commit_oid |-> NoneV,
     old_stats |-> NoneV,
     cache |-> NoneV]

\* Repository::incremental(path, commit, old_commit, old_stats, max_tree_size)
RepositoryIncremental(old_commit, old_stats, max) ==
    [commit_oid |-> NewCommit,
     max_tree_size |-> IF IsSome(max) THEN Unwrap(max) ELSE MAX_TREE_SIZE,
     old_commit_oid |-> Some(old_commit),
     old_stats |-> Some(old_stats),
     cache |-> NoneV]

\* the max_tree_size arguments
Ceilings == {NoneV, Some(MaxEntries)}

\* a registry as Language::init() leaves it
LoadedRegistry ==
    CHOOSE reg \in {Initialised(loaded) : loaded \in SampleOutcomes} : TRUE

\* the cache a full walk of a tree leaves; it is the same on every
\* outcome of the registry's initialisation
FullWalkCache(tree) == FullScan(LoadedRegistry, tree, EmptyMap)

\* an entry of a file that is in no tree
GhostPath == <<"g","h","o","s","t",".","c">>

\* the caches handed to Repository::incremental for a predecessor tree:
\* that of its full walk, and that with an entry more
PredecessorCaches(tree) ==
    {FullWalkCache(tree),
     Put(FullWalkCache(tree), GhostPath, [language |-> <<"C">>, size |-> 7])}

\* One query on the Repository: get_cache, then the answer over the cache.
Query ==
    /\ builds.queries < MaxQueries
    /\ \E got \in {GetCache(registry, repository, git)} :
       \E q \in QueryNames :
           /\ repository' = [repository EXCEPT !.cache = got.cache]
           /\ builds' =
                  [queries |-> builds.queries + 1,
                   computed |-> builds.computed + Len(got.computed),
                   trees |-> builds.trees
                       + (IF got.computed = <<>> THEN 0
                          ELSE got.computed[1].trees),
                   refused |-> IF got.computed = <<>> THEN builds.refused
                               ELSE got.computed[1].refused,
                   first_cache |-> IF builds.first_cache = NoneV
                                   THEN got.cache
                                   ELSE builds.first_cache]
           /\ \E a \in Answers(q, Unwrap(got.cache)) :
                  answer' = Some([query |-> q, value |-> a])
    /\ UNCHANGED <<catalogue, once, registry, git, call>>
    /\ UNCHANGED detectVars
    /\ UNCHANGED threadVars
    /\ UNCHANGED directoryVars
    /\ UNCHANGED concurrentVars

NoBuilds ==
    [queries |-> 0, computed |-> 0, trees |-> 0, refused |-> FALSE,
     first_cache |-> NoneV]

\* A Repository on the new commit: by Repository::new, or by
\* Repository::incremental with the predecessor's commit and a cache of
\* it; the predecessor may be the new commit itself.  The process has
\* loaded the language data before.
InitRepository ==
    /\ catalogue = SampleCatalogue
    /\ once = "complete"
    /\ registry = LoadedRegistry
    /\ call = NoCall
    /\ InitDetect
    /\ InitThreads
    /\ dir = NoneV
    /\ walk = NoneV
    /\ analyzer = NoneV
    /\ outcome = NoneV
    /\ first_outcome = NoneV
    /\ \E old_tree \in Trees :
       \E caches \in {PredecessorCaches(old_tree)} :
       \E new_tree \in Trees, max \in Ceilings :
           /\ git = [c \in {OldCommit, NewCommit} |->
                        IF c = OldCommit THEN old_tree ELSE new_tree]
           /\ \/ repository = RepositoryNew(max) /\ old_tree = new_tree
              \/ \E old_stats \in caches :
                     repository = RepositoryIncremental(OldCommit, old_stats, max)
              \/ /\ old_tree = new_tree
                 /\ \E old_stats \in caches :
                        repository = RepositoryIncremental(NewCommit, old_stats, max)
    /\ builds = NoBuilds
    /\ answer = NoneV
    /\ InitConcurrent

NextRepository == Query

SpecRepository == InitRepository /\ [][NextRepository]_vars

(***************************************************************************)
(* Properties of the Repository                                            *)
(***************************************************************************)
\* the tree of the predecessor commit handed to Repository::incremental
PredecessorTree == git[Unwrap(repository.old_commit_oid)]

\* Repository::incremental with a predecessor commit other than the new one
OtherPredecessor ==
    /\ IsSome(repository.old_commit_oid)
    /\ Unwrap(repository.old_commit_oid) # repository.commit_oid

\* Repository::incremental with the new commit as the predecessor
SamePredecessor ==
    /\ IsSome(repository.old_commit_oid)
    /\ Unwrap(repository.old_commit_oid) = repository.commit_oid

\* a query has been made
Queried == builds.queries > 0

\* the paths at which two trees differ: the paths of the delta
ChangedPaths(old_tree, new_tree) ==
    {e.path : e \in (old_tree \ new_tree) \cup (new_tree \ old_tree)}

\* the entries of a tree, its files and its directories: what
\* count_tree_entries counts when it is not cut short
EntryCount(tree) ==
    Cardinality(tree)
        + Cardinality(UNION {{SubSeq(e.path, 1, i - 1) :
                                 i \in {j \in 1..Len(e.path) : e.path[j] = "/"}} :
                             e \in tree})

\* the cache of a Repository::new on the new commit with the same ceiling
FullRebuild ==
    ComputeStats(registry, RepositoryNew(Some(repository.max_tree_size)), git).cache

\* the predecessor cache is that of the predecessor's full walk
HasFullWalkCache ==
    /\ IsSome(repository.old_stats)
    /\ GhostPath \notin DOMAIN Unwrap(repository.old_stats)

\* a map without the entries of the paths of P
Without(file_map, P) == [p \in (DOMAIN file_map) \ P |-> file_map[p]]

\* C13: an incremental rebuild from a predecessor with its full-walk cache,
\* when every file of the new tree is in the delta, leaves the cache that
\* a full rebuild of the new snapshot leaves.
C13_FullEqualsIncremental ==
    (/\ Queried
     /\ OtherPredecessor
     /\ git[NewCommit] \cap PredecessorTree = {}
     /\ HasFullWalkCache)
        => Unwrap(repository.cache) = FullRebuild

C13_Witness ==
    /\ Queried
    /\ OtherPredecessor
    /\ git[NewCommit] \cap PredecessorTree = {}
    /\ HasFullWalkCache
    /\ ~builds.refused
    /\ Unwrap(repository.cache) # EmptyMap
    /\ \E p \in DOMAIN Unwrap(repository.old_stats) :
           p \notin DOMAIN Unwrap(repository.cache)
    /\ \E p \in DOMAIN Unwrap(repository.old_stats) :
           /\ p \in DOMAIN Unwrap(repository.cache)
           /\ Unwrap(repository.cache)[p] # Unwrap(repository.old_stats)[p]

\* the delta is applied file by file: the tree is not refused and no
\* .gitattributes file is in the delta
DeltaApplied ==
    /\ Queried
    /\ OtherPredecessor
    /\ ~builds.refused
    /\ \A p \in ChangedPaths(PredecessorTree, git[NewCommit]) :
           FileName(p) # <<".","g","i","t","a","t","t","r","i","b","u","t","e","s">>

\* C14: in incremental mode the entry of every path of the delta is
\* removed; where the new tree has a blob at the path that is no symlink,
\* no submodule and not binary, the pipeline is run on it and its entry is
\* inserted if it counts; the entries of the other paths stay as they were.
C14_DeltaEntries ==
    DeltaApplied =>
        LET changed == ChangedPaths(PredecessorTree, git[NewCommit])
            cache == Unwrap(repository.cache)
        IN  /\ Without(cache, changed)
                   = Without(Unwrap(repository.old_stats), changed)
            /\ \A p \in changed :
                   Without(cache, (DOMAIN cache) \ {p}) =
                       IF \E e \in git[NewCommit] :
                              /\ e.path = p
                              /\ e.mode = ModeBlob
                              /\ ~ContainsNul(e.data)
                       THEN UpdateFileMap(registry, EmptyMap, p,
                                          LazyBlobNew(EntryAt(git[NewCommit], p)))
                       ELSE EmptyMap

C14_Witness ==
    /\ DeltaApplied
    /\ GhostPath \in DOMAIN Unwrap(repository.cache)
    /\ \E e \in PredecessorTree :
           /\ e.path \in DOMAIN Unwrap(repository.old_stats)
           /\ \A f \in git[NewCommit] : f.path # e.path
    /\ \E e \in PredecessorTree, f \in git[NewCommit] :
           /\ e.path = f.path
           /\ e # f
           /\ f.path \in DOMAIN Unwrap(repository.cache)

\* a .gitattributes file is added, modified or deleted between the trees
GitattributesDelta ==
    \E p \in ChangedPaths(PredecessorTree, git[NewCommit]) :
        FileName(p) = <<".","g","i","t","a","t","t","r","i","b","u","t","e","s">>

\* C15: when a file whose basename is .gitattributes is added, modified or
\* deleted, nothing of the predecessor cache is kept: the cache is that of
\* a full walk of the new tree.
C15_GitattributesInvalidates ==
    (Queried /\ OtherPredecessor /\ GitattributesDelta)
        => Unwrap(repository.cache) = FullRebuild

C15_Witness ==
    /\ Queried
    /\ OtherPredecessor
    /\ \E e \in PredecessorTree :
           /\ FileName(e.path) = <<".","g","i","t","a","t","t","r","i","b","u","t","e","s">>
           /\ \A f \in git[NewCommit] : f.path # e.path
    /\ GhostPath \in DOMAIN Unwrap(repository.old_stats)
    /\ Unwrap(repository.cache) # EmptyMap

\* C16: an incremental refresh whose delta is empty leaves a cache equal
\* to the predecessor cache; stated for the trees with at most as many
\* entries as the ceiling, which are to be analysed.
C16_EmptyDeltaIdentity ==
    (/\ Queried
     /\ IsSome(repository.old_commit_oid)
     /\ PredecessorTree = git[NewCommit]
     /\ EntryCount(git[NewCommit]) <= repository.max_tree_size)
        => repository.cache = repository.old_stats

C18_RefusedAboveCeiling ==
    builds.computed > 0 =>
        (builds.refused
            <=> EntryCount(git[NewCommit]) > repository.max_tree_size)

(***************************************************************************)
(* Modeline::call on blobs with one or several modelines                   *)
(***************************************************************************)
VimSyntaxLine == "// vim: set syntax=javascript:"

\* how many lines a blob with modelines has at most
MaxModelineLines == 3

\* the lines of the blobs handed to the Modeline strategy
ModelineLines == {EmacsLine, VimLine, VimSyntaxLine, ProseLine, VimballLine}

ModelineContents ==
    UNION {[1..n -> ModelineLines] : n \in 1..MaxModelineLines}

ModelineBlobs ==
    [name : {<<"n","o","t","e","s">>}, data : ModelineContents, symlink : BOOLEAN]

\* the candidates handed to the strategy
ModelineCandidates == {<<>>, <<LangC, LangJavaScript>>, <<LangCpp>>}

\* Modeline.call(b, cands) in a process that has loaded the language data
CallModeline ==
    /\ \E b \in ModelineBlobs, cands \in ModelineCandidates :
           call' = [op |-> "modeline",
                    blob |-> b,
                    candidates |-> cands,
                    content |-> FirstLines(b, MODELINE_SEARCH_SCOPE)
                                    \o LastLines(b, MODELINE_SEARCH_SCOPE),
                    result |-> ModelineCall(registry, b, cands)]
    /\ UNCHANGED <<catalogue, once, registry>>
    /\ UNCHANGED detectVars
    /\ UNCHANGED threadVars
    /\ UNCHANGED directoryVars
    /\ UNCHANGED repositoryVars
    /\ UNCHANGED concurrentVars

InitModeline ==
    /\ catalogue = SampleCatalogue
    /\ once = "complete"
    /\ registry = LoadedRegistry
    /\ call = NoCall
    /\ InitDetect
    /\ InitThreads
    /\ InitAggregator
    /\ InitConcurrent

NextModeline == CallModeline

SpecModeline == InitModeline /\ [][NextModeline]_vars

\* the strategy looked for a modeline: the blob is no symlink and its header
\* has no UseVimball
ModelineSearched ==
    /\ call.op = "modeline"
    /\ ~call.blob.symlink
    /\ \A i \in 1..Len(call.content) : call.content[i] # VimballLine

\* the mode of the modeline that comes first in the text
FirstModeInText(content) ==
    LET hits == {i \in 1..Len(content) :
                    IsSome(EmacsMode(content[i])) \/ IsSome(VimMode(content[i]))}
        first == CHOOSE i \in hits : \A j \in hits : i <= j
    IN  IF hits = {} THEN NoneV
        ELSE IF IsSome(EmacsMode(content[first])) THEN EmacsMode(content[first])
        ELSE VimMode(content[first])

\* the language of a mode looked up as a name, then as an alias
ByNameThenAlias(reg, mode) ==
    IF IsSome(FindByName(reg, mode)) THEN FindByName(reg, mode)
    ELSE FindByAlias(reg, mode)

\* C21: the mode of the modeline is looked up as a language name and then
\* as an alias, so a modeline that names a language by its name yields the
\* language.
C21_NameThenAlias ==
    (/\ ModelineSearched
     /\ call.candidates = <<>>
     /\ IsSome(ModelineMode(call.content))
     /\ IsSome(ByNameThenAlias(registry, Unwrap(ModelineMode(call.content)))))
        => call.result =
               <<Unwrap(ByNameThenAlias(registry,
                                        Unwrap(ModelineMode(call.content))))>>

\* C22: of several modelines in the scanned lines the one that comes first
\* in the text is used, be it an Emacs or a Vim modeline.
C22_FirstInText ==
    (/\ ModelineSearched
     /\ call.candidates = <<>>
     /\ IsSome(FirstModeInText(call.content)))
        => call.result =
               (IF IsSome(FindByAlias(registry,
                                      Unwrap(FirstModeInText(call.content))))
                THEN <<Unwrap(FindByAlias(registry,
                                          Unwrap(FirstModeInText(call.content))))>>
                ELSE <<>>)

(***************************************************************************)
(* Heuristics::call: the order of the rules of a disambiguation            *)
(***************************************************************************)
\* the entries of DISAMBIGUATIONS for the extension of a file name
EntriesFor(reg, filename) ==
    {k \in 1..Len(DISAMBIGUATIONS(reg)) :
        MatchesExtension(DISAMBIGUATIONS(reg)[k], filename)}

\* the positions of the rules of an entry that match the content
MatchingRules(d, data) ==
    {k \in 1..Len(d.rules) : RuleMatches(d.rules[k].rule, data)}

\* Heuristics was called on a text blob whose extension has an entry
HeuristicsOnEntry ==
    /\ call.op = "call"
    /\ call.strategy = "Heuristics"
    /\ ~IsBinary(call.blob)
    /\ ~call.blob.symlink
    /\ EntriesFor(registry, call.blob.name) # {}

\* C23: on a text blob whose extension has a disambiguation entry,
\* Heuristics returns the languages of the first rule of the entry, in
\* table order, that matches the content, less those that are not
\* candidates when there are candidates; no later rule is consulted, also
\* when nothing is left.
C23_FirstMatchingRule ==
    HeuristicsOnEntry =>
        LET d == DISAMBIGUATIONS(registry)[
                     CHOOSE k \in EntriesFor(registry, call.blob.name) : TRUE]
            hits == MatchingRules(d, call.blob.data)
            first == CHOOSE k \in hits : \A j \in hits : k <= j
            languages == d.rules[first].languages
        IN  /\ Cardinality(EntriesFor(registry, call.blob.name)) = 1
            /\ hits # {}
            /\ Len(call.result) <= Len(languages)
            /\ \A i \in 1..Len(languages) :
                   (call.candidates = <<>>
                        \/ \E j \in 1..Len(call.candidates) :
                               call.candidates[j].name = languages[i].name)
                       <=> \E j \in 1..Len(call.result) :
                               call.result[j] = languages[i]
            /\ \A j \in 1..Len(call.result) :
                   \E i \in 1..Len(languages) : call.result[j] = languages[i]

\* the first matching rule has no candidate among its languages, a later
\* rule has one, and the result is empty
C23_Witness ==
    /\ HeuristicsOnEntry
    /\ call.result = <<>>
    /\ call.candidates # <<>>
    /\ LET d == DISAMBIGUATIONS(registry)[
                    CHOOSE k \in EntriesFor(registry, call.blob.name) : TRUE]
           hits == MatchingRules(d, call.blob.data)
       IN  /\ Cardinality(hits) > 1
           /\ \E k \in hits :
                  \E i \in 1..Len(d.rules[k].languages) :
                      Contains(call.candidates, d.rules[k].languages[i])

(***************************************************************************)
(* BlobHelper::lines, first_lines and last_lines on the bytes of a text    *)
(* (blob.rs).  A text is a sequence of bytes; CR, LF and NUL name the      *)
(* bytes 13, 10 and 0.                                                     *)
(***************************************************************************)
CR == "CR"
LF == "LF"
NUL == "NUL"

\* the longest text
MaxTextLen == 4

TextBytes == {"a", CR, LF, NUL}

Texts == UNION {[1..n -> TextBytes] : n \in 0..MaxTextLen}

\* FileBlob::is_binary on bytes: a NUL byte (the other bytes are UTF-8)
TextIsBinary(data) ==
    IF data = <<>> THEN FALSE ELSE \E i \in 1..Len(data) : data[i] = NUL

\* the pieces of split_inclusive('\n'), from the piece `line` under way on
RECURSIVE SplitInclusive(_, _)
SplitInclusive(text, line) ==
    IF text = <<>> THEN (IF line = <<>> THEN <<>> ELSE <<line>>)
    ELSE IF Head(text) = LF
    THEN <<Append(line, LF)>> \o SplitInclusive(Tail(text), <<>>)
    ELSE SplitInclusive(Tail(text), Append(line, Head(text)))

\* strip_suffix of one byte, or the line itself
StripSuffix(line, byte) ==
    IF line # <<>> /\ line[Len(line)] = byte
    THEN SubSeq(line, 1, Len(line) - 1)
    ELSE line

\* what str::lines makes of one piece: the line feed goes and, before a
\* line feed, one carriage return.  The standard library once took the
\* carriage return at the end of a last piece without line feed too, and
\* later left it; strips_last says which library the build has.
LineOfPiece(piece, strips_last) ==
    IF piece # <<>> /\ piece[Len(piece)] = LF
    THEN StripSuffix(StripSuffix(piece, LF), CR)
    ELSE IF strips_last THEN StripSuffix(piece, CR)
    ELSE piece

\* content.lines().map(String::from).collect()
StrLines(text, strips_last) ==
    LET pieces == SplitInclusive(text, <<>>)
    IN  [i \in 1..Len(pieces) |-> LineOfPiece(pieces[i], strips_last)]

\* BlobHelper::lines
TextLines(data, strips_last) ==
    IF TextIsBinary(data) \/ data = <<>> THEN <<>>
    ELSE StrLines(data, strips_last)

\* self.lines().into_iter().take(n).collect()
Take(lines, n) == SubSeq(lines, 1, IF n < Len(lines) THEN n ELSE Len(lines))

\* BlobHelper::last_lines on lines()
LastOf(lines, n) ==
    IF n >= Len(lines) THEN lines
    ELSE SubSeq(lines, Len(lines) - n + 1, Len(lines))

\* lines(), first_lines(n) and last_lines(n) of a blob, called once
CallLines ==
    /\ call = NoCall
    /\ \E data \in Texts, n \in 0..MaxTextLen, strips_last \in BOOLEAN :
           call' = [op |-> "lines",
                    data |-> data,
                    n |-> n,
                    lines |-> TextLines(data, strips_last),
                    first_lines |-> Take(TextLines(data, strips_last), n),
                    last_lines |-> LastOf(TextLines(data, strips_last), n)]
    /\ UNCHANGED <<catalogue, once, registry>>
    /\ UNCHANGED detectVars
    /\ UNCHANGED threadVars
    /\ UNCHANGED directoryVars
    /\ UNCHANGED repositoryVars
    /\ UNCHANGED concurrentVars

InitLines ==
    /\ catalogue = SampleCatalogue
    /\ once = "incomplete"
    /\ registry = Uninitialised
    /\ call = NoCall
    /\ InitDetect
    /\ InitThreads
    /\ InitAggregator
    /\ InitConcurrent

NextLines == CallLines

SpecLines == InitLines /\ [][NextLines]_vars

\* a text cut at every LF, every CR LF and every CR alone; the pieces come
\* without their terminators, `line` is the piece under way
RECURSIVE SplitAtTerminators(_, _)
SplitAtTerminators(text, line) ==
    IF text = <<>> THEN (IF line = <<>> THEN <<>> ELSE <<line>>)
    ELSE IF Head(text) = CR /\ Len(text) > 1 /\ text[2] = LF
    THEN <<line>> \o SplitAtTerminators(Tail(Tail(text)), <<>>)
    ELSE IF Head(text) \in {CR, LF}
    THEN <<line>> \o SplitAtTerminators(Tail(text), <<>>)
    ELSE SplitAtTerminators(Tail(text), Append(line, Head(text)))

\* C24: lines() is empty on a binary or empty blob and otherwise the
\* pieces of the text cut at every LF, CR LF and lone CR, in order and
\* without the terminators; first_lines(n) and last_lines(n) are the first
\* and the last min(n, len) of them.
C24_Lines ==
    call.op = "lines" =>
        /\ call.lines =
               (IF TextIsBinary(call.data) \/ call.data = <<>> THEN <<>>
                ELSE SplitAtTerminators(call.data, <<>>))
        /\ LET len == Len(call.lines)
               k == IF call.n < len THEN call.n ELSE len
           IN  /\ call.first_lines = [i \in 1..k |-> call.lines[i]]
               /\ call.last_lines = [i \in 1..k |-> call.lines[len - k + i]]


(***************************************************************************)
(* Shebang::interpreter on the characters of the first line                *)
(***************************************************************************)

\* [^/\s]
NameChar(c) == c # "/" /\ c # " "

\* the end of the longest run [^/\s]* that starts at p
RunEnd(line, p) ==
    CHOOSE e \in (p - 1)..Len(line) :
        /\ \A k \in p..e : NameChar(line[k])
        /\ e = Len(line) \/ ~NameChar(line[e + 1])

\* the position after \s* from p
AfterSpaces(line, p) ==
    CHOOSE q \in p..(Len(line) + 1) :
        /\ \A k \in p..(q - 1) : line[k] = " "
        /\ q = Len(line) + 1 \/ line[q] # " "

\* (?:.*/)?([^/\s]+) from p: the greedy .*/ goes to the last "/" that a
\* name follows, and without such a "/" the name starts at p
TailCapture(line, p) ==
    LET slashes == {q \in p..(Len(line) - 1) :
                        line[q] = "/" /\ NameChar(line[q + 1])}
        last == CHOOSE q \in slashes : \A r \in slashes : r <= q
    IN  IF slashes # {}
        THEN Some(SubSeq(line, last + 1, RunEnd(line, last + 1)))
        ELSE IF p <= Len(line) /\ NameChar(line[p])
        THEN Some(SubSeq(line, p, RunEnd(line, p)))
        ELSE NoneV

\* SHEBANG_REGEX, capture 1
ShebangRegex(line) ==
    IF ~OccursAt(line, 1, <<"#","!">>) THEN NoneV
    ELSE LET p == AfterSpaces(line, 3)
             env == /\ OccursAt(line, p, <<"/","u","s","r","/","b","i","n","/","e","n","v"," ">>)
                    /\ TailCapture(line, AfterSpaces(line, p + 12)) # NoneV
         IN  IF env THEN TailCapture(line, AfterSpaces(line, p + 12))
             ELSE TailCapture(line, p)

\* [\s'"]
ExecSeparator(c) == c \in {" ", "'", "\""}

\* \w
WordChar(c) ==
    \/ c \in Digits
    \/ c = "_"
    \/ \E i \in 1..26 : LowerLetters[i] = c \/ UpperLetters[i] = c

\* EXEC_REGEX, capture 1, of the leftmost match
ExecRegex(line) ==
    LET Match(i, j, k, l) ==
            /\ OccursAt(line, i, <<"e","x","e","c"," ">>)
            /\ i + 5 <= j
            /\ \A x \in (i + 5)..j : WordChar(line[x])
            /\ j < k
            /\ \A x \in (j + 1)..(k - 1) : ExecSeparator(line[x])
            /\ OccursAt(line, k, <<"$","0">>)
            /\ k + 2 < l
            /\ \A x \in (k + 2)..(l - 1) : ExecSeparator(line[x])
            /\ OccursAt(line, l, <<"$","@">>)
        N == 1..Len(line)
        starts == {i \in N : \E j \in N, k \in N, l \in N : Match(i, j, k, l)}
        first == CHOOSE i \in starts : \A r \in starts : i <= r
        stop == CHOOSE j \in N : \E k \in N, l \in N : Match(first, j, k, l)
    IN  IF starts = {} THEN NoneV
        ELSE Some(SubSeq(line, first + 5, stop))

\* first_line.split("-S ").nth(1)?.split_whitespace().next()?
AfterDashS(line) ==
    LET marks == {i \in 1..Len(line) : OccursAt(line, i, <<"-","S"," ">>)}
        first == CHOOSE i \in marks : \A r \in marks : i <= r
        later == {i \in marks : i >= first + 3}
        stop  == IF later = {} THEN Len(line)
                 ELSE (CHOOSE i \in later : \A r \in later : i <= r) - 1
        after_s == SubSeq(line, first + 3, stop)
        p == AfterSpaces(after_s, 1)
        e == CHOOSE x \in (p - 1)..Len(after_s) :
                /\ \A k \in p..x : after_s[k] # " "
                /\ x = Len(after_s) \/ after_s[x + 1] = " "
    IN  IF marks = {} \/ p > Len(after_s) THEN NoneV
        ELSE Some(SubSeq(after_s, p, e))

\* the special handling of python versions
PythonVersion(interpreter) ==
    IF interpreter = <<"p","y","t","h","o","n","2",".","7">> THEN <<"p","y","t","h","o","n","2">> ELSE interpreter

\* the loop over content.lines().take(5) for the interpreter sh
ExecHack(lines, interpreter) ==
    LET five == SubSeq(lines, 1, IF Len(lines) < 5 THEN Len(lines) ELSE 5)
        hits == {i \in 1..Len(five) : ExecRegex(five[i]) # NoneV}
        first == CHOOSE i \in hits : \A r \in hits : i <= r
    IN  IF hits = {} THEN interpreter ELSE ExecRegex(five[first])[1]

\* Shebang::interpreter on data that is valid UTF-8 text, given as its lines
ShebangInterpreter(lines) ==
    IF lines = <<>> \/ ~OccursAt(lines[1], 1, <<"#","!">>) THEN NoneV
    ELSE LET first_line == lines[1]
         IN  IF Anywhere(first_line, <<"/","e","n","v"," ","-","S"," ">>)
             THEN IF AfterDashS(first_line) = NoneV THEN NoneV
                  ELSE Some(PythonVersion(AfterDashS(first_line)[1]))
             ELSE IF /\ Anywhere(first_line, <<"/","e","n","v"," ">>)
                     /\ ~Anywhere(first_line, <<"-">>)
                     /\ ShebangRegex(first_line) # NoneV
             THEN ShebangRegex(first_line)
             ELSE IF ShebangRegex(first_line) = NoneV THEN NoneV
             ELSE LET interpreter == ShebangRegex(first_line)[1]
                  IN  IF interpreter = <<"p","y","t","h","o","n","2",".","7">> THEN Some(<<"p","y","t","h","o","n","2">>)
                      ELSE IF interpreter = <<"s","h">>
                      THEN Some(ExecHack(lines, interpreter))
                      ELSE Some(interpreter)

\* the scripts the calls are made on: a launcher, an interpreter name, an
\* argument, and a second line
Launchers ==
    { <<"#","!","/","u","s","r","/","b","i","n","/">>, <<"#","!","/","b","i","n","/">>, <<"#","!"," ","/","u","s","r","/","l","o","c","a","l","/","b","i","n","/">>, <<"#","!">>,
      <<"#","!","/","u","s","r","/","b","i","n","/","e","n","v"," ">>, <<"#","!","/","u","s","r","/","b","i","n","/","e","n","v"," ","-","S"," ">> }

InterpreterNames ==
    { <<"p","y","t","h","o","n">>, <<"p","y","t","h","o","n","2",".","7">>, <<"p","y","t","h","o","n","3",".","9">>, <<"r","u","b","y">>, <<"r","u","b","y","2",".","6">>,
      <<"n","o","d","e">>, <<"s","h">>, <<"p","e","r","l","5">> }

Arguments == { <<>>, <<" ","-","u">> }

ExecLine == <<"e","x","e","c"," ","p","e","r","l"," ","'","$","0","'"," ","'","$","@","'">>

SecondLines == { <<>>, <<ExecLine>>, <<<<"p","r","i","n","t","(","1",")">>>> }

CallInterpreter ==
    /\ call = NoCall
    /\ \E launcher \in Launchers, name \in InterpreterNames,
          argument \in Arguments, rest \in SecondLines :
          \E lines \in {<<launcher \o name \o argument>> \o rest} :
              call' = [op |-> "interpreter", lines |-> lines, name |-> name,
                       result |-> ShebangInterpreter(lines)]
    /\ UNCHANGED <<catalogue, once, registry>>
    /\ UNCHANGED detectVars /\ UNCHANGED threadVars
    /\ UNCHANGED directoryVars /\ UNCHANGED repositoryVars
    /\ UNCHANGED concurrentVars

InitShebang ==
    /\ catalogue = SampleCatalogue
    /\ once = "incomplete"
    /\ registry = Uninitialised
    /\ call = NoCall
    /\ InitDetect
    /\ InitThreads
    /\ InitAggregator
    /\ InitConcurrent

NextShebang == CallInterpreter

SpecShebang == InitShebang /\ [][NextShebang]_vars

\* a name without its trailing .N, N being digits only
StripMinorVersion(name) ==
    LET dots == {p \in 2..(Len(name) - 1) :
                    /\ name[p] = "."
                    /\ \A k \in (p + 1)..Len(name) : name[k] \in Digits}
    IN  IF dots = {} THEN name
        ELSE SubSeq(name, 1, (CHOOSE p \in dots : TRUE) - 1)

\* the call was made on a script whose interpreter is not sh
InterpreterNamed ==
    /\ call # NoCall
    /\ call.op = "interpreter"
    /\ call.name # <<"s","h">>

\* C25: the interpreter extracted from a shebang line is the name on that
\* line without its trailing .N when N is digits only, and the name itself
\* when it has no such suffix.
C25_StripsMinorVersion ==
    InterpreterNamed => call.result = Some(StripMinorVersion(call.name))


(***************************************************************************)
(* detect: the candidates carried between the strategies                   *)
(***************************************************************************)

\* the strategy calls of the run that gave exactly one language
SingleResults == {i \in 1..Len(trace) : Len(trace[i].result) = 1}

\* C26: at every point of a run of detect the candidates carried between
\* the strategies are no language or at least two, never exactly one; a
\* language detect returns is the one-language result of a strategy call,
\* and a run in which no strategy gives exactly one language returns None.
C26_CandidatesNeverOne ==
    /\ Len(candidates) # 1
    /\ \A i \in 1..Len(trace) : Len(trace[i].given) # 1
    /\ IsSome(verdict) =>
           /\ trace # <<>>
           /\ trace[Len(trace)].result = <<verdict[1]>>
    /\ (pc = "done" /\ SingleResults = {}) => verdict = NoneV

\* A run that returns the one-language result of a strategy that was handed
\* two or more candidates.
C26_Witness ==
    /\ pc = "done"
    /\ IsSome(verdict)
    /\ Len(trace[Len(trace)].given) >= 2
    /\ Len(candidates) >= 2


(***************************************************************************)
(* ParallelClassifier: classify_single and its two caches                  *)
(***************************************************************************)

\* format!("{}:{}", blob.name(), blob.size()): the size is the decimal
\* number after the last colon, so the key determines the name and the size
GenerateCacheKey(b) == <<b.name, Size(b)>>

\* the hash of blob.data(); two different contents with one hash are not
\* modelled, so the hash stands for the content
ComputeContentHash(b) == b.data

\* get_or_compute_tokens: the tokens, and the token cache afterwards
GetOrComputeTokens(tokens_by_hash, b) ==
    LET content_hash == ComputeContentHash(b)
    IN  IF content_hash \in DOMAIN tokens_by_hash
        THEN [tokens |-> tokens_by_hash[content_hash],
              token_cache |-> tokens_by_hash]
        ELSE IF ~ValidUtf8(b.data)
        THEN [tokens |-> 0, token_cache |-> Put(tokens_by_hash, content_hash, 0)]
        ELSE [tokens |-> Tokenize(b.data),
              token_cache |-> Put(tokens_by_hash, content_hash,
                                  Tokenize(b.data))]

\* classify_with_tokens
ClassifyWithTokens(tokens, cands) ==
    IF cands # <<>> THEN <<cands[1]>> ELSE <<>>

\* result.first().cloned()
First(result) == IF result = <<>> THEN NoneV ELSE Some(result[1])

\* classify_single that never reads the result cache
ClassifySingleUncached(results, tokens_by_hash, b, cands) ==
    LET cache_key == GenerateCacheKey(b)
        got == GetOrComputeTokens(tokens_by_hash, b)
        result == ClassifyWithTokens(got.tokens, cands)
    IN  IF IsBinary(b) \/ b.symlink
        THEN [result |-> <<>>, cached |-> FALSE,
              result_cache |-> Put(results, cache_key, NoneV),
              token_cache |-> tokens_by_hash]
        ELSE IF got.tokens < 10
        THEN [result |-> <<>>, cached |-> FALSE,
              result_cache |-> Put(results, cache_key, NoneV),
              token_cache |-> got.token_cache]
        ELSE [result |-> result, cached |-> FALSE,
              result_cache |-> Put(results, cache_key, First(result)),
              token_cache |-> got.token_cache]

\* classify_single: the result and the two caches afterwards
ClassifySingle(results, tokens_by_hash, b, cands) ==
    LET cache_key == GenerateCacheKey(b)
    IN  IF cache_key \in DOMAIN results
        \* cached_result.clone().map(|lang| vec![lang]).unwrap_or_default()
        THEN [result |-> IF IsSome(results[cache_key])
                         THEN <<Unwrap(results[cache_key])>> ELSE <<>>,
              cached |-> TRUE,
              result_cache |-> results, token_cache |-> tokens_by_hash]
        ELSE ClassifySingleUncached(results, tokens_by_hash, b, cands)

\* the blobs classified: two texts of ten tokens or more, a short text, a
\* binary file and a symlink
ClassifiedBlobs ==
    {[name |-> <<"v","e","c","t","o","r",".","h">>, data |-> <<IncludeLine, ProseLine, ProseLine>>,
      symlink |-> FALSE],
     [name |-> <<"a","p","p",".","j","s">>, data |-> <<ReactLine, ProseLine, ProseLine>>,
      symlink |-> FALSE],
     [name |-> <<"t","o","o","l",".","1">>, data |-> <<ThLine, ShLine>>, symlink |-> FALSE],
     [name |-> <<"l","o","g","o",".","p","n","g">>, data |-> <<NulLine>>, symlink |-> FALSE],
     [name |-> <<"s","c","r","i","p","t">>, data |-> <<TargetLine>>, symlink |-> TRUE]}

\* the languages the candidates are taken from
ClassifierLanguages == {LangC, LangCpp, LangJavaScript}

\* ParallelClassifier::call / classify_single
CallClassifySingle ==
    \E b \in ClassifiedBlobs :
    \E cands \in CandidateLists(ClassifierLanguages) :
    \E got \in {ClassifySingle(result_cache, token_cache, b, cands)} :
        /\ call' = [op |-> "classify_single", blob |-> b,
                    candidates |-> cands, result |-> got.result,
                    cached |-> got.cached]
        /\ result_cache' = got.result_cache
        /\ token_cache' = got.token_cache
        /\ UNCHANGED <<catalogue, once, registry>>
        /\ UNCHANGED detectVars
        /\ UNCHANGED threadVars
        /\ UNCHANGED directoryVars
        /\ UNCHANGED repositoryVars
        /\ UNCHANGED poolVars

\* ParallelClassifier::clear_caches
ClearCaches ==
    /\ result_cache # EmptyMap \/ token_cache # EmptyMap
    /\ result_cache' = EmptyMap
    /\ token_cache' = EmptyMap
    /\ call' = [op |-> "clear_caches"]
    /\ UNCHANGED <<catalogue, once, registry>>
    /\ UNCHANGED detectVars
    /\ UNCHANGED threadVars
    /\ UNCHANGED directoryVars
    /\ UNCHANGED repositoryVars
    /\ UNCHANGED poolVars

\* ParallelClassifier::new
InitClassifier ==
    /\ catalogue = SampleCatalogue
    /\ once = "incomplete"
    /\ registry = Uninitialised
    /\ call = NoCall
    /\ InitDetect
    /\ InitThreads
    /\ InitAggregator
    /\ result_cache = EmptyMap
    /\ token_cache = EmptyMap
    /\ NoPool

NextClassifier ==
    \/ CallClassifySingle
    \/ ClearCaches

SpecClassifier == InitClassifier /\ [][NextClassifier]_vars

\* C27: every invocation of classify_single made with a non-empty list of
\* candidates returns only languages of that list, also when an earlier
\* invocation on a blob of the same name and size was made with other
\* candidates and its result was cached.
C27_WithinCandidates ==
    (call.op = "classify_single" /\ call.candidates # <<>>)
    => \A i \in 1..Len(call.result) :
           \E j \in 1..Len(call.candidates) :
               call.result[i] = call.candidates[j]


(***************************************************************************)
(* ThreadPoolManager: the work queue, the workers, detect_language_async   *)
(* and shutdown.  The statistics counters and the monitoring thread are    *)
(* left out: nothing reads the counters to decide, and the monitoring      *)
(* thread only reads them.                                                 *)
(***************************************************************************)

\* config.worker_threads is at most
MaxWorkers == 2
\* the calls of detect_language_async, over all threads
MaxSubmissions == 2
\* the calls of shutdown()
MaxShutdowns == 1

\* config.queue_capacity; 0 makes the channel unbounded
Capacities == {0, 1}

\* the threads that submit
Submitters == {1, 2}

\* the blobs submitted: two files named vector.h with different contents
PoolBlobs ==
    {[name |-> <<"v","e","c","t","o","r",".","h">>, data |-> <<VimLine, IncludeLine>>,
      symlink |-> FALSE],
     [name |-> <<"v","e","c","t","o","r",".","h">>, data |-> <<EmacsLine>>, symlink |-> FALSE]}

\* bounded(capacity) has room for another message; unbounded() always has
HasRoom(channel) ==
    channel.capacity = 0 \/ Len(channel.items) < channel.capacity

\* Sender::send once it has room
Send(channel, item) == [channel EXCEPT !.items = Append(@, item)]

ShutdownItem == [kind |-> "Shutdown"]

DetectLanguageItem(b, id) == [kind |-> "DetectLanguage", blob |-> b, id |-> id]

\* a worker that sends nothing when the language is in the cache
NoCachedReply(language_cache, cache_key) == <<>>

\* what a worker sends when cache.get(&cache_key) is Some
CachedReply(language_cache, cache_key) ==
    <<[name |-> cache_key, language |-> language_cache[cache_key]]>>

\* blob.language() of each blob submitted, in a process that has loaded the
\* language data
PoolLanguage == [b \in PoolBlobs |-> BlobLanguage(LoadedRegistry, b)]

\* what a worker sends after blob.language()
DetectedReply(b) == <<[name |-> b.name, language |-> PoolLanguage[b]]>>

\* result_sender.send on the channel of submission id
Deliver(channels, id, messages) ==
    [channels EXCEPT ![id].messages = @ \o messages]

Stopped(w) == workers[w].pc = "stopped"

Idle == [pc |-> "check", item |-> NoneV]

\* worker_loop: "Check shutdown flag"
WorkerCheck(w) ==
    /\ workers[w].pc = "check"
    /\ workers' = [workers EXCEPT ![w].pc =
                       IF shutdown THEN "stopped" ELSE "recv"]
    /\ UNCHANGED <<queue, pool_cache, shutdown, submitters, receivers, closer>>

\* receiver.recv_timeout returns a work item; a Shutdown item ends the loop
WorkerRecv(w) ==
    /\ workers[w].pc = "recv"
    /\ queue.items # <<>>
    /\ queue' = [queue EXCEPT !.items = Tail(@)]
    /\ workers' = [workers EXCEPT ![w] =
                       IF Head(queue.items).kind = "Shutdown"
                       THEN [pc |-> "stopped", item |-> NoneV]
                       ELSE [pc |-> "lookup",
                             item |-> Some(Head(queue.items))]]
    /\ UNCHANGED <<pool_cache, shutdown, submitters, receivers, closer>>

\* receiver.recv_timeout times out: no item came for 100 ms
WorkerTimeout(w) ==
    /\ workers[w].pc = "recv"
    /\ queue.items = <<>>
    /\ workers' = [workers EXCEPT ![w].pc = "check"]
    /\ UNCHANGED <<queue, pool_cache, shutdown, submitters, receivers, closer>>

\* "Check cache first": a hit is sent at once
WorkerLookup(w) ==
    /\ workers[w].pc = "lookup"
    /\ LET item == Unwrap(workers[w].item)
           cache_key == item.blob.name
       IN  IF cache_key \in DOMAIN pool_cache
           THEN /\ receivers' = Deliver(receivers, item.id,
                                        CachedReply(pool_cache, cache_key))
                /\ workers' = [workers EXCEPT ![w] = Idle]
           ELSE /\ workers' = [workers EXCEPT ![w].pc = "detect"]
                /\ UNCHANGED receivers
    /\ UNCHANGED <<queue, pool_cache, shutdown, submitters, closer>>

\* "Perform language detection", cache.insert and send
WorkerDetect(w) ==
    /\ workers[w].pc = "detect"
    /\ LET item == Unwrap(workers[w].item)
       IN  /\ pool_cache' = Put(pool_cache, item.blob.name,
                                PoolLanguage[item.blob])
           /\ receivers' = Deliver(receivers, item.id,
                                   DetectedReply(item.blob))
    /\ workers' = [workers EXCEPT ![w] = Idle]
    /\ UNCHANGED <<queue, shutdown, submitters, closer>>

Worker(w) ==
    /\ w \in DOMAIN workers
    /\ \/ WorkerCheck(w)
       \/ WorkerRecv(w)
       \/ WorkerTimeout(w)
       \/ WorkerLookup(w)
       \/ WorkerDetect(w)
    /\ UNCHANGED <<catalogue, once, registry, call>>
    /\ UNCHANGED detectVars
    /\ UNCHANGED threadVars
    /\ UNCHANGED directoryVars
    /\ UNCHANGED repositoryVars
    /\ UNCHANGED classifierVars

\* detect_language_async up to work_sender.send: the channel of the
\* submission is made
SubmitBegin(t, b) ==
    /\ submitters[t].pc = "idle"
    /\ Len(receivers) < MaxSubmissions
    /\ receivers' = Append(receivers, [blob |-> b, messages |-> <<>>])
    /\ submitters' = [submitters EXCEPT ![t] =
                          [pc |-> "sending", id |-> Len(receivers) + 1]]
    /\ UNCHANGED <<queue, pool_cache, shutdown, workers, closer>>
    /\ UNCHANGED <<catalogue, once, registry, call>>
    /\ UNCHANGED detectVars
    /\ UNCHANGED threadVars
    /\ UNCHANGED directoryVars
    /\ UNCHANGED repositoryVars
    /\ UNCHANGED classifierVars

\* work_sender.send(work_item) returns, and detect_language_async with it
SubmitSend(t) ==
    /\ submitters[t].pc = "sending"
    /\ HasRoom(queue)
    /\ queue' = Send(queue, DetectLanguageItem(
                         receivers[submitters[t].id].blob, submitters[t].id))
    /\ submitters' = [submitters EXCEPT ![t].pc = "idle"]
    /\ UNCHANGED <<pool_cache, shutdown, workers, receivers, closer>>
    /\ UNCHANGED <<catalogue, once, registry, call>>
    /\ UNCHANGED detectVars
    /\ UNCHANGED threadVars
    /\ UNCHANGED directoryVars
    /\ UNCHANGED repositoryVars
    /\ UNCHANGED classifierVars

\* shutdown(): *self.shutdown.lock() = true
ShutdownBegin ==
    /\ closer.pc \in {"idle", "returned"}
    /\ closer.calls < MaxShutdowns
    /\ shutdown' = TRUE
    /\ closer' = [pc |-> "sending", sent |-> 0, calls |-> closer.calls + 1]
    /\ UNCHANGED <<queue, pool_cache, workers, submitters, receivers>>
    /\ UNCHANGED <<catalogue, once, registry, call>>
    /\ UNCHANGED detectVars
    /\ UNCHANGED threadVars
    /\ UNCHANGED directoryVars
    /\ UNCHANGED repositoryVars
    /\ UNCHANGED classifierVars

\* one round of "for _ in 0..self.config.worker_threads": send returns
ShutdownSend ==
    /\ closer.pc = "sending"
    /\ closer.sent < Len(workers)
    /\ HasRoom(queue)
    /\ queue' = Send(queue, ShutdownItem)
    /\ closer' = [closer EXCEPT !.sent = @ + 1]
    /\ UNCHANGED <<pool_cache, shutdown, workers, submitters, receivers>>
    /\ UNCHANGED <<catalogue, once, registry, call>>
    /\ UNCHANGED detectVars
    /\ UNCHANGED threadVars
    /\ UNCHANGED directoryVars
    /\ UNCHANGED repositoryVars
    /\ UNCHANGED classifierVars

\* the loop is over: thread::sleep(100 ms), and shutdown() returns
ShutdownReturn ==
    /\ closer.pc = "sending"
    /\ closer.sent = Len(workers)
    /\ closer' = [closer EXCEPT !.pc = "returned"]
    /\ UNCHANGED <<queue, pool_cache, shutdown, workers, submitters,
                   receivers>>
    /\ UNCHANGED <<catalogue, once, registry, call>>
    /\ UNCHANGED detectVars
    /\ UNCHANGED threadVars
    /\ UNCHANGED directoryVars
    /\ UNCHANGED repositoryVars
    /\ UNCHANGED classifierVars

\* ThreadPoolManager::new(config) and start() with use_work_stealing, in a
\* process that has loaded the language data
InitPool ==
    /\ catalogue = SampleCatalogue
    /\ once = "complete"
    /\ registry = LoadedRegistry
    /\ call = NoCall
    /\ InitDetect
    /\ InitThreads
    /\ InitAggregator
    /\ NoClassifier
    /\ \E capacity \in Capacities : queue = [capacity |-> capacity, items |-> <<>>]
    /\ pool_cache = EmptyMap
    /\ shutdown = FALSE
    /\ \E worker_threads \in 1..MaxWorkers :
           workers = [w \in 1..worker_threads |-> Idle]
    /\ submitters = [t \in Submitters |-> [pc |-> "idle", id |-> 0]]
    /\ receivers = <<>>
    /\ closer = [pc |-> "idle", sent |-> 0, calls |-> 0]

NextPool ==
    \/ \E w \in 1..MaxWorkers : Worker(w)
    \/ \E t \in Submitters, b \in PoolBlobs : SubmitBegin(t, b)
    \/ \E t \in Submitters : SubmitSend(t)
    \/ ShutdownBegin
    \/ ShutdownSend
    \/ ShutdownReturn

SpecPool == InitPool /\ [][NextPool]_vars

\* Every thread is scheduled again and again: a worker, a submitter inside
\* send and the thread inside shutdown() take their next step when they can.
\* Nothing obliges a thread to call detect_language_async or shutdown().
FairPool ==
    /\ \A w \in 1..MaxWorkers : WF_vars(Worker(w))
    /\ \A t \in Submitters : WF_vars(SubmitSend(t))
    /\ WF_vars(ShutdownSend)
    /\ WF_vars(ShutdownReturn)

SpecPoolFair == InitPool /\ [][NextPool]_vars /\ FairPool


\* the submissions made so far
Submissions == DOMAIN receivers

\* the channel of submission id holds exactly one message
Answered(id) == id \in Submissions /\ Len(receivers[id].messages) = 1

C30_ShutdownTerminates ==
    [](closer.pc = "sending" =>
           <>(closer.pc = "returned" /\ \A w \in DOMAIN workers : Stopped(w)))

====
